---- MODULE Spec2Model ----
(***************************************************************************)
(* A model of the BASIC interpreter of basic-emulator/src/interpreter.rs:  *)
(* the runtime state of one Interpreter instance, the host-visible         *)
(* operations (load_program, step, handle_input_char,                      *)
(* handle_input_backspace, handle_input_enter) and the statement and       *)
(* expression semantics step() dispatches to.                              *)
(*                                                                         *)
(* Conventions.  Strings and identifiers are sequences of one-character    *)
(* strings, so that ends_with('$'), push and pop are computed.  Numbers    *)
(* are the integral f64 values (Div and Pow, whose results leave the       *)
(* integers, are outside the modelled expression subset).  Statement       *)
(* indices are 0-based as in the source.  The display sink is an external  *)
(* collaborator: the model records the calls each operation delivers to    *)
(* it.  Variables prefixed h_ are history variables; they record what the  *)
(* last operation did and never influence the interpreter.                 *)
(***************************************************************************)
EXTENDS Integers, Sequences, FiniteSets, TLC

\* ---------------------------------------------------------------- bounds
\* total number of characters the host types during one run
MaxTyped == 2
\* the same, in the runs of the INPUT program alone
MaxTypedInput == 4
\* largest DIM bound and largest index offset used by the array programs
MaxDim == 2
\* programs loaded into one interpreter
MaxLoads == 2
\* pieces a line given to the normalizer is made of
MaxPieces == 5
\* operands and operators a line given to the second pass is made of
MaxOperands == 4
\* pieces the text after the line number of a generated source line is made of
MaxTokens == 4
\* the operands of the printed comparisons are 0..MaxNumber
MaxNumber == 5
\* content bytes of a generated one-record tokenized program
MaxBytes == 3
\* FOR loops run from, to and by numbers up to MaxFor
MaxFor == 3

\* ------------------------------------------------------------- constants
\* Option::None of current_line / then_line
NoLine == -1
\* Option::None of input_variable / prompt ; the empty String
NoName == <<>>
\* Ok(()) of a Result<_, String>
NoErr == ""
\* no GameState has been constructed
NoGame == <<>>
\* `as usize` of a negative i64 wraps modulo 2^64; TLC integers are 32 bit
\* wide, so the wrap is modelled modulo 2^30 (far above every array size)
UsizeModulus == 1073741824

\* ----------------------------------------------------------------- Value
Num(n) == [t |-> "Number", n |-> n, s |-> <<>>]
Str(s) == [t |-> "String", n |-> 0, s |-> s]

Ok(v) == [ok |-> TRUE, v |-> v, err |-> NoErr]
Fail(msg) == [ok |-> FALSE, v |-> Num(0), err |-> msg]

as_number(v) == IF v.t = "Number" THEN Ok(v.n) ELSE Fail("Type mismatch: expected number")

\* floor() of an integral f64 is the number itself
as_int(v) == as_number(v)

is_truthy(v) == IF v.t = "Number" THEN v.n # 0 ELSE v.s # <<>>

Digit(d) == CASE d = 0 -> "0" [] d = 1 -> "1" [] d = 2 -> "2" [] d = 3 -> "3" [] d = 4 -> "4"
              [] d = 5 -> "5" [] d = 6 -> "6" [] d = 7 -> "7" [] d = 8 -> "8" [] d = 9 -> "9"

RECURSIVE NatToChars(_)
NatToChars(n) == IF n < 10 THEN <<Digit(n)>> ELSE NatToChars(n \div 10) \o <<Digit(n % 10)>>

\* format!("{}", n as i64)
FormatI64(n) == IF n < 0 THEN <<"-">> \o NatToChars(-n) ELSE NatToChars(n)

to_display_string(v) ==
    IF v.t = "Number"
    THEN IF v.n >= 0 THEN <<" ">> \o FormatI64(v.n) ELSE FormatI64(v.n)
    ELSE v.s

DigitVal(c) == CASE c = "0" -> 0 [] c = "1" -> 1 [] c = "2" -> 2 [] c = "3" -> 3 [] c = "4" -> 4
                 [] c = "5" -> 5 [] c = "6" -> 6 [] c = "7" -> 7 [] c = "8" -> 8 [] c = "9" -> 9
                 [] OTHER -> -1

RECURSIVE DigitsValue(_)
DigitsValue(cs) == IF cs = <<>> THEN 0 ELSE 10 * DigitsValue(SubSeq(cs, 1, Len(cs) - 1)) + DigitVal(cs[Len(cs)])

\* str::parse::<f64>().unwrap_or(0.0) on texts made of letters other than
\* those of "inf", "nan" and of decimal digits without sign, point or
\* exponent: a non-empty all-digit text is its value, anything else fails
ParseNumber(cs) ==
    IF cs # <<>> /\ \A i \in 1..Len(cs) : DigitVal(cs[i]) >= 0 THEN DigitsValue(cs) ELSE 0

ends_with_dollar(name) == name # <<>> /\ name[Len(name)] = "$"

\* ------------------------------------------------------------------ maps
EmptyMap == <<>>
Put(m, k, v) == [x \in (DOMAIN m) \cup {k} |-> IF x = k THEN v ELSE m[x]]
Has(m, k) == k \in DOMAIN m

\* ------------------------------------------------------------------- AST
ENumber(n) == [e |-> "Number", n |-> n]
EString(s) == [e |-> "String", s |-> s]
EVariable(name) == [e |-> "Variable", name |-> name]
EArrayAccess(name, indices) == [e |-> "ArrayAccess", name |-> name, indices |-> indices]
EBinaryOp(l, op, r) == [e |-> "BinaryOp", l |-> l, op |-> op, r |-> r]
EUnaryOp(op, x) == [e |-> "UnaryOp", op |-> op, x |-> x]

SPrint(items, semi) == [k |-> "Print", items |-> items, trailing_semicolon |-> semi]
SInput(prompt, variable) == [k |-> "Input", prompt |-> prompt, variable |-> variable]
SLet(variable, value) == [k |-> "Let", variable |-> variable, has_index |-> FALSE, index |-> <<>>, value |-> value]
SLetIdx(variable, index, value) == [k |-> "Let", variable |-> variable, has_index |-> TRUE, index |-> index, value |-> value]
SIfLine(condition, line) == [k |-> "If", condition |-> condition, then_branch |-> <<>>, then_line |-> line]
SIf(condition, branch) == [k |-> "If", condition |-> condition, then_branch |-> branch, then_line |-> NoLine]
SGoto(line) == [k |-> "Goto", line |-> line]
SGosub(line) == [k |-> "Gosub", line |-> line]
SReturn == [k |-> "Return"]
SFor(variable, start, end, has_step, step) ==
    [k |-> "For", variable |-> variable, start |-> start, end |-> end, has_step |-> has_step, step |-> step]
SNext(variable) == [k |-> "Next", variable |-> variable]
SDim(decls) == [k |-> "Dim", decls |-> decls]
DimDecl(name, dimensions) == [name |-> name, dimensions |-> dimensions]
SData(values) == [k |-> "Data", values |-> values]
SRead(vars) == [k |-> "Read", vars |-> vars]
SPoke(addr, val) == [k |-> "Poke", addr |-> addr, val |-> val]
SEnd == [k |-> "End"]
SRem == [k |-> "Rem"]

PExpr(x) == [p |-> "Expr", x |-> x]
PTab(x) == [p |-> "Tab", x |-> x]
PSpc(x) == [p |-> "Spc", x |-> x]
PComma == [p |-> "Comma", x |-> ENumber(0)]

\* ----------------------------------------------------------------- state
VARIABLES
    lines,                \* program.lines : BTreeMap<u32, Vec<Statement>>
    variables,            \* HashMap<String, Value>
    arrays,               \* HashMap<String, Vec<Value>>
    array_dimensions,     \* HashMap<String, Vec<usize>>
    gosub_stack,          \* Vec<(u32, usize)>
    for_stack,            \* Vec<ForLoop>
    data_values,          \* Vec<String>
    data_pointer,         \* usize
    current_line,         \* Option<u32>
    statement_idx,        \* usize
    input_buffer,         \* String
    waiting_for_input,    \* bool
    input_variable,       \* Option<String>
    ended,                \* bool
    sink,                 \* calls the last operation delivered to the display sink
    h_op,                 \* the last operation of the host
    h_result,             \* what the last step() returned: "true", "false" or the error text
    h_log,                \* the statements the last step() executed, in order
    h_expect,             \* per gosub_stack entry: the statement following that GOSUB in program order
    h_pending,            \* after a RETURN: the statement that has to execute next
    h_ret_ok,             \* FALSE once a statement other than h_pending executed after a RETURN
    h_input_path,         \* the INPUT statement that armed the current or last wait
    h_committed,          \* a wait was completed by handle_input_enter and no step() ran since
    h_resumed,            \* the last operation was the first step() after a completed wait
    h_errored,            \* some earlier step() returned an error
    h_exec_after_error,   \* a step() executed a statement although an earlier step() had failed
    h_typed,              \* number of handle_input_char calls so far
    h_fed,                \* the characters the host delivered since the wait was armed
    h_loads,              \* number of load_program calls so far
    h_source,             \* the argument of the function under study: a text or a byte sequence
    h_output,             \* what the function returned for h_source
    game                  \* the GameState of the game layer, NoGame before GameState::new

vars == <<lines, variables, arrays, array_dimensions, gosub_stack, for_stack, data_values,
          data_pointer, current_line, statement_idx, input_buffer, waiting_for_input,
          input_variable, ended, sink, h_op, h_result, h_log, h_expect, h_pending, h_ret_ok,
          h_input_path, h_committed, h_resumed, h_errored, h_exec_after_error, h_typed,
          h_fed, h_loads, h_source, h_output, game>>

\* ------------------------------------------------------------ expressions
\* `x as usize` for an i64 x
AsUsize(x) == x % UsizeModulus

RECURSIVE FlatIndexFrom(_, _, _, _, _)
FlatIndexFrom(indices, dims, i, flat_index, multiplier) ==
    IF i = 0 THEN Ok(flat_index)
    ELSE IF indices[i] >= dims[i] THEN Fail("Array index out of bounds")
    ELSE FlatIndexFrom(indices, dims, i - 1, flat_index + indices[i] * multiplier, multiplier * dims[i])

RECURSIVE IndexSum(_)
IndexSum(indices) == IF indices = <<>> THEN 0 ELSE indices[1] + IndexSum(Tail(indices))

\* mutant: the indices are added up without the multipliers
calculate_flat_index_Summed(indices, dims) ==
    IF Len(indices) # Len(dims) THEN Fail("Array dimension mismatch")
    ELSE IF \E i \in 1..Len(indices) : indices[i] >= dims[i] THEN Fail("Array index out of bounds")
    ELSE Ok(IndexSum(indices))

calculate_flat_index(indices, dims) ==
    IF Len(indices) # Len(dims) THEN Fail("Array dimension mismatch")
    ELSE FlatIndexFrom(indices, dims, Len(indices), 0, 1)

\* a & b and a | b on two's complement integers of any width
RECURSIVE BitAnd(_, _)
BitAnd(a, b) ==
    IF a = 0 \/ b = 0 THEN 0
    ELSE IF a = -1 THEN b
    ELSE IF b = -1 THEN a
    ELSE 2 * BitAnd(a \div 2, b \div 2) + (a % 2) * (b % 2)

RECURSIVE BitOr(_, _)
BitOr(a, b) ==
    IF a = 0 THEN b
    ELSE IF b = 0 THEN a
    ELSE IF a = -1 \/ b = -1 THEN -1
    ELSE 2 * BitOr(a \div 2, b \div 2) + (IF a % 2 = 1 \/ b % 2 = 1 THEN 1 ELSE 0)

Truth(b) == Num(IF b THEN -1 ELSE 0)

\* left.as_number()? and right.as_number()? , left first
NumericOperands(left, right) ==
    IF ~as_number(left).ok THEN Fail(as_number(left).err)
    ELSE IF ~as_number(right).ok THEN Fail(as_number(right).err)
    ELSE Ok(Num(0))

NumericResult(left, op, right) ==
    CASE op = "Sub" -> Num(left.n - right.n)
      [] op = "Mul" -> Num(left.n * right.n)
      [] op = "Lt" -> Truth(left.n < right.n)
      [] op = "Le" -> Truth(left.n <= right.n)
      [] op = "Gt" -> Truth(left.n > right.n)
      [] op = "Ge" -> Truth(left.n >= right.n)
      [] op = "And" -> Num(BitAnd(left.n, right.n))
      [] op = "Or" -> Num(BitOr(left.n, right.n))

\* mutant: AND and OR combine the truth of their operands
eval_binop_Logical(left, op, right) ==
    CASE op = "And" -> Ok(Truth(is_truthy(left) /\ is_truthy(right)))
      [] op = "Or" -> Ok(Truth(is_truthy(left) \/ is_truthy(right)))
      [] OTHER -> Fail("Type mismatch: expected number")

eval_binop(left, op, right) ==
    CASE op = "Add" ->
            IF left.t = "Number" /\ right.t = "Number" THEN Ok(Num(left.n + right.n))
            ELSE IF left.t = "String" /\ right.t = "String" THEN Ok(Str(left.s \o right.s))
            ELSE Fail("Type mismatch in addition")
      [] op = "Eq" -> Ok(Truth(left = right))
      [] op = "Ne" -> Ok(Truth(left # right))
      [] OTHER ->
            IF NumericOperands(left, right).ok THEN Ok(NumericResult(left, op, right))
            ELSE NumericOperands(left, right)

eval_unop(op, val) ==
    CASE op = "Neg" -> IF as_number(val).ok THEN Ok(Num(-val.n)) ELSE Fail(as_number(val).err)
      [] op = "Not" -> Ok(Num(IF is_truthy(val) THEN 0 ELSE -1))

\* one index, evaluated to r, in front of the indices after it:
\* Ok(r?.as_int()? as usize)
IndexCons(r, rest) ==
    IF ~r.ok THEN [ok |-> FALSE, v |-> <<>>, err |-> r.err]
    ELSE IF ~as_int(r.v).ok THEN [ok |-> FALSE, v |-> <<>>, err |-> as_int(r.v).err]
    ELSE IF ~rest.ok THEN rest
    ELSE [ok |-> TRUE, v |-> <<AsUsize(r.v.n)>> \o rest.v, err |-> NoErr]

\* the element at the flat index fi of the array
EvalArrayElement(s, name, fi) ==
    IF ~fi.ok THEN Fail(fi.err)
    ELSE IF fi.v < Len(s.arrays[name]) THEN Ok(s.arrays[name][fi.v + 1])
    ELSE Fail("Array index out of bounds")

\* Expr::ArrayAccess once the indices are evaluated to iv
EvalArrayAccess(s, name, iv) ==
    IF ~iv.ok THEN Fail(iv.err)
    ELSE IF ~Has(s.arrays, name) \/ ~Has(s.array_dimensions, name)
         THEN Fail("Array not dimensioned")
    ELSE EvalArrayElement(s, name, calculate_flat_index(iv.v, s.array_dimensions[name]))

\* Expr::BinaryOp once the operands are evaluated, the left one first
EvalBinaryOp(l, op, r) ==
    IF ~l.ok THEN l
    ELSE IF ~r.ok THEN r
    ELSE eval_binop(l.v, op, r.v)

\* Expr::UnaryOp once the operand is evaluated
EvalUnaryOp(op, v) == IF ~v.ok THEN v ELSE eval_unop(op, v.v)

RECURSIVE eval_expr(_, _)
RECURSIVE EvalIndices(_, _, _)
RECURSIVE eval_function(_, _, _)

\* indices.iter().map(|e| Ok(self.eval_expr(e)?.as_int()? as usize)).collect()
EvalIndices(s, exprs, i) ==
    IF i > Len(exprs) THEN [ok |-> TRUE, v |-> <<>>, err |-> NoErr]
    ELSE IndexCons(eval_expr(s, exprs[i]), EvalIndices(s, exprs, i + 1))

eval_expr(s, x) ==
    CASE x.e = "Number" -> Ok(Num(x.n))
      [] x.e = "String" -> Ok(Str(x.s))
      [] x.e = "Variable" ->
            IF Has(s.variables, x.name) THEN Ok(s.variables[x.name])
            ELSE IF ends_with_dollar(x.name) THEN Ok(Str(<<>>)) ELSE Ok(Num(0))
      [] x.e = "ArrayAccess" -> EvalArrayAccess(s, x.name, EvalIndices(s, x.indices, 1))
      [] x.e = "BinaryOp" -> EvalBinaryOp(eval_expr(s, x.l), x.op, eval_expr(s, x.r))
      [] x.e = "UnaryOp" -> EvalUnaryOp(x.op, eval_expr(s, x.x))
      [] x.e = "FunctionCall" -> eval_function(s, x.name, x.args)

\* --------------------------------------------------------- program order
NoPath == <<>>

RECURSIVE SetToAscending(_)
SetToAscending(S) ==
    IF S = {} THEN <<>>
    ELSE LET m == CHOOSE x \in S : \A y \in S : x <= y IN <<m>> \o SetToAscending(S \ {m})

\* program.lines.keys() : the keys of the BTreeMap in ascending order
Keys(prog) == SetToAscending(DOMAIN prog)

RECURSIVE FindFrom(_, _, _)
FindFrom(keys, i, current) ==
    IF i > Len(keys) THEN NoLine
    ELSE IF keys[i] > current THEN keys[i]
    ELSE FindFrom(keys, i + 1, current)

\* mutant: the scan runs from the largest key down
RECURSIVE FindFromEnd(_, _, _)
FindFromEnd(keys, i, current) ==
    IF i < 1 THEN NoLine
    ELSE IF keys[i] > current THEN keys[i]
    ELSE FindFromEnd(keys, i - 1, current)

FindNextLine_Last(prog, current) == FindFromEnd(Keys(prog), Len(Keys(prog)), current)

\* .keys().find(|&&k| k > current).copied()
FindNextLine(prog, current) == FindFrom(Keys(prog), 1, current)

\* a statement is addressed by <<line, statement index>> followed by its
\* indices in the nested inline IF branches that contain it
RECURSIVE StmtIn(_, _)
StmtIn(stmts, idxs) ==
    IF Len(idxs) = 1 THEN stmts[idxs[1] + 1]
    ELSE StmtIn(stmts[idxs[1] + 1].then_branch, Tail(idxs))

StmtAt(path) == StmtIn(lines[path[1]], Tail(path))

RECURSIVE FirstStmtAfterLine(_)
FirstStmtAfterLine(l) ==
    LET k == FindNextLine(lines, l) IN
    IF k = NoLine THEN NoPath
    ELSE IF Len(lines[k]) > 0 THEN <<k, 0>> ELSE FirstStmtAfterLine(k)

Parent(path) == SubSeq(path, 1, Len(path) - 1)

\* the statement that follows the statement at path in program order
RECURSIVE SuccPath(_)
SuccPath(path) ==
    LET last == path[Len(path)] IN
    IF Len(path) = 2
    THEN IF last + 1 < Len(lines[path[1]]) THEN <<path[1], last + 1>> ELSE FirstStmtAfterLine(path[1])
    ELSE IF last + 1 < Len(StmtAt(Parent(path)).then_branch)
         THEN Parent(path) \o <<last + 1>>
         ELSE SuccPath(Parent(path))

\* ------------------------------------------------------------ statements
SinkPrint(text) == [call |-> "print", text |-> text, n |-> 0]
SinkPrintln(text) == [call |-> "println", text |-> text, n |-> 0]
SinkTabTo(col) == [call |-> "tab_to", text |-> <<>>, n |-> col]
SinkBorder(c) == [call |-> "set_border_color", text |-> <<>>, n |-> c]
SinkBackground(c) == [call |-> "set_background_color", text |-> <<>>, n |-> c]

Emit(s, c) == [s EXCEPT !.sink = Append(@, c)]
Err(s, msg) == [s EXCEPT !.err = msg]

\* the interpreter's fields, as recorded before and after a statement
Snap(s) == [variables |-> s.variables, arrays |-> s.arrays,
            array_dimensions |-> s.array_dimensions, gosub_stack |-> s.gosub_stack,
            for_stack |-> s.for_stack, data_pointer |-> s.data_pointer,
            current_line |-> s.current_line, statement_idx |-> s.statement_idx,
            waiting_for_input |-> s.waiting_for_input, input_variable |-> s.input_variable,
            ended |-> s.ended, sink |-> s.sink]

RECURSIVE PrintSpaces(_, _)
PrintSpaces(s, count) == IF count <= 0 THEN s ELSE PrintSpaces(Emit(s, SinkPrint(<<" ">>)), count - 1)

\* what an item of PRINT leaves: the state and the column the code tracks
Printed(s, column) == [s |-> s, column |-> column]

\* mutant: no space is printed after a number
PrintExpr_NoSpace(s, value, column) ==
    IF ~value.ok THEN Printed(Err(s, value.err), column)
    ELSE Printed(Emit(s, SinkPrint(to_display_string(value.v))),
                 column + Len(to_display_string(value.v)))

\* PrintItem::Expr once the expression is evaluated
PrintExpr(s, value, column) ==
    IF ~value.ok THEN Printed(Err(s, value.err), column)
    ELSE IF value.v.t = "Number"
    THEN Printed(Emit(Emit(s, SinkPrint(to_display_string(value.v))), SinkPrint(<<" ">>)),
                 column + Len(to_display_string(value.v)) + 1)
    ELSE Printed(Emit(s, SinkPrint(to_display_string(value.v))),
                 column + Len(to_display_string(value.v)))

\* PrintItem::Tab once the expression is evaluated
PrintTab(s, value, column) ==
    IF ~value.ok THEN Printed(Err(s, value.err), column)
    ELSE IF ~as_int(value.v).ok THEN Printed(Err(s, as_int(value.v).err), column)
    ELSE Printed(Emit(s, SinkTabTo(AsUsize(value.v.n))), AsUsize(value.v.n))

\* PrintItem::Spc once the expression is evaluated
PrintSpc(s, value, column) ==
    IF ~value.ok THEN Printed(Err(s, value.err), column)
    ELSE IF ~as_int(value.v).ok THEN Printed(Err(s, as_int(value.v).err), column)
    ELSE Printed(PrintSpaces(s, AsUsize(value.v.n)), column + AsUsize(value.v.n))

\* PrintItem::Comma: the next zone of ten columns
PrintComma(s, next_zone) == Printed(Emit(s, SinkTabTo(next_zone)), next_zone)

PrintItem(s, item, column) ==
    CASE item.p = "Expr" -> PrintExpr(s, eval_expr(s, item.x), column)
      [] item.p = "Tab" -> PrintTab(s, eval_expr(s, item.x), column)
      [] item.p = "Comma" -> PrintComma(s, ((column \div 10) + 1) * 10)
      [] item.p = "Spc" -> PrintSpc(s, eval_expr(s, item.x), column)

RECURSIVE PrintItems(_, _, _, _)
RECURSIVE PrintNext(_, _, _)

\* for item in &stmt.items { ... }
PrintItems(s, items, i, column) ==
    IF i > Len(items) THEN s
    ELSE PrintNext(PrintItem(s, items[i], column), items, i + 1)

\* the `?` of an item: r is what the item left
PrintNext(r, items, i) ==
    IF r.s.err # NoErr THEN r.s ELSE PrintItems(r.s, items, i, r.column)

\* if !stmt.trailing_semicolon { self.screen.println("") }
PrintLine(r, stmt) ==
    IF r.err # NoErr THEN r
    ELSE IF ~stmt.trailing_semicolon THEN Emit(r, SinkPrintln(<<>>)) ELSE r

exec_print(s, stmt) == PrintLine(PrintItems(s, stmt.items, 1, 0), stmt)

\* path is recorded for the history variable h_input_path only
exec_input(s, stmt, path) ==
    IF s.waiting_for_input THEN s
    ELSE [Emit(s, SinkPrint(IF stmt.prompt # NoName THEN stmt.prompt ELSE <<"?", " ">>))
            EXCEPT !.waiting_for_input = TRUE,
                   !.input_variable = stmt.variable,
                   !.statement_idx = @ - 1,
                   !.input_path = path]

\* the store into the element at the flat index fi
LetElement(s, name, value, fi) ==
    IF ~fi.ok THEN Err(s, fi.err)
    ELSE IF ~Has(s.arrays, name) THEN Err(s, "Array not dimensioned")
    ELSE IF fi.v >= Len(s.arrays[name]) THEN Err(s, "Array index out of bounds")
    ELSE [s EXCEPT !.arrays[name][fi.v + 1] = value]

\* the array assignment once the indices are evaluated to iv
LetIndexed(s, name, value, iv) ==
    IF ~iv.ok THEN Err(s, iv.err)
    ELSE IF ~Has(s.array_dimensions, name) THEN Err(s, "Array not dimensioned")
    ELSE LetElement(s, name, value, calculate_flat_index(iv.v, s.array_dimensions[name]))

\* exec_let once the value is evaluated
LetValue(s, stmt, value) ==
    IF ~value.ok THEN Err(s, value.err)
    ELSE IF stmt.has_index
    THEN LetIndexed(s, stmt.variable, value.v, EvalIndices(s, stmt.index, 1))
    ELSE [s EXCEPT !.variables = Put(@, stmt.variable, value.v)]

\* mutant: the evaluated value is stored in the scalar of the name before
\* the indices are looked at
exec_let_Eager(s, stmt) ==
    LetValue(IF eval_expr(s, stmt.value).ok
             THEN [s EXCEPT !.variables = Put(@, stmt.variable, eval_expr(s, stmt.value).v)]
             ELSE s,
             stmt, eval_expr(s, stmt.value))

exec_let(s, stmt) == LetValue(s, stmt, eval_expr(s, stmt.value))

exec_goto(s, line) == [s EXCEPT !.current_line = line, !.statement_idx = 0]

\* path is used for the history stack h_expect only
exec_gosub(s, line, path) ==
    exec_goto([s EXCEPT !.gosub_stack = Append(@, <<s.current_line, s.statement_idx>>),
                        !.expect = Append(@, SuccPath(path))], line)

\* mutant: an unmatched RETURN is ignored
exec_return_Ignored(s) ==
    IF s.gosub_stack = <<>> THEN s
    ELSE LET top == s.gosub_stack[Len(s.gosub_stack)] IN
         [s EXCEPT !.gosub_stack = SubSeq(@, 1, Len(@) - 1),
                   !.current_line = top[1],
                   !.statement_idx = top[2],
                   !.pending = s.expect[Len(s.expect)],
                   !.expect = SubSeq(@, 1, Len(@) - 1)]

exec_return(s) ==
    IF s.gosub_stack = <<>> THEN Err(s, "RETURN without GOSUB")
    ELSE LET top == s.gosub_stack[Len(s.gosub_stack)] IN
         [s EXCEPT !.gosub_stack = SubSeq(@, 1, Len(@) - 1),
                   !.current_line = top[1],
                   !.statement_idx = top[2],
                   !.pending = s.expect[Len(s.expect)],
                   !.expect = SubSeq(@, 1, Len(@) - 1)]

\* exec_for once start, end and step are evaluated, in that order
ForLoop(s, stmt, start, end, step) ==
    IF ~start.ok THEN Err(s, start.err)
    ELSE IF ~as_number(start.v).ok THEN Err(s, as_number(start.v).err)
    ELSE IF ~end.ok THEN Err(s, end.err)
    ELSE IF ~as_number(end.v).ok THEN Err(s, as_number(end.v).err)
    ELSE IF ~step.ok THEN Err(s, step.err)
    ELSE IF ~as_number(step.v).ok THEN Err(s, as_number(step.v).err)
    ELSE [s EXCEPT !.variables = Put(@, stmt.variable, Num(start.v.n)),
                   !.for_stack = Append(@, [variable |-> stmt.variable,
                                            end_value |-> end.v.n,
                                            step |-> step.v.n,
                                            line_num |-> s.current_line,
                                            statement_idx |-> s.statement_idx])]

exec_for(s, stmt) ==
    ForLoop(s, stmt, eval_expr(s, stmt.start), eval_expr(s, stmt.end),
            IF stmt.has_step THEN eval_expr(s, stmt.step) ELSE Ok(Num(1)))

\* mutant: NEXT takes the outermost frame
exec_next_Outermost(s) ==
    IF s.for_stack = <<>> THEN Err(s, "NEXT without FOR")
    ELSE LET for_loop == s.for_stack[1] IN
    IF ~Has(s.variables, for_loop.variable) THEN Err(s, "Loop variable not found")
    ELSE IF ~as_number(s.variables[for_loop.variable]).ok
         THEN Err(s, as_number(s.variables[for_loop.variable]).err)
    ELSE LET new_value == s.variables[for_loop.variable].n + for_loop.step
             should_continue == IF for_loop.step > 0 THEN new_value <= for_loop.end_value
                                ELSE new_value >= for_loop.end_value
         IN IF should_continue
            THEN [s EXCEPT !.variables = Put(@, for_loop.variable, Num(new_value)),
                           !.current_line = for_loop.line_num,
                           !.statement_idx = for_loop.statement_idx]
            ELSE [s EXCEPT !.for_stack = SubSeq(@, 1, Len(@) - 1)]

exec_next(s) ==
    IF s.for_stack = <<>> THEN Err(s, "NEXT without FOR")
    ELSE LET for_loop == s.for_stack[Len(s.for_stack)] IN
    IF ~Has(s.variables, for_loop.variable) THEN Err(s, "Loop variable not found")
    ELSE IF ~as_number(s.variables[for_loop.variable]).ok
         THEN Err(s, as_number(s.variables[for_loop.variable]).err)
    ELSE LET new_value == s.variables[for_loop.variable].n + for_loop.step
             should_continue == IF for_loop.step > 0 THEN new_value <= for_loop.end_value
                                ELSE new_value >= for_loop.end_value
         IN IF should_continue
            THEN [s EXCEPT !.variables = Put(@, for_loop.variable, Num(new_value)),
                           !.current_line = for_loop.line_num,
                           !.statement_idx = for_loop.statement_idx]
            ELSE [s EXCEPT !.for_stack = SubSeq(@, 1, Len(@) - 1)]

\* one dimension, evaluated to r, in front of the dimensions after it:
\* size = r?.as_int()? as usize + 1
DimCons(r, rest) ==
    IF ~r.ok THEN [ok |-> FALSE, v |-> <<>>, err |-> r.err]
    ELSE IF ~as_int(r.v).ok THEN [ok |-> FALSE, v |-> <<>>, err |-> as_int(r.v).err]
    ELSE IF ~rest.ok THEN rest
    ELSE [ok |-> TRUE, v |-> <<AsUsize(r.v.n) + 1>> \o rest.v, err |-> NoErr]

\* mutant: the bound is taken as the length
DimSizes_Exclusive(s, exprs, i) == EvalIndices(s, exprs, i)

\* the sizes of the dimensions of one array of a DIM
RECURSIVE DimSizes(_, _, _)
DimSizes(s, exprs, i) ==
    IF i > Len(exprs) THEN [ok |-> TRUE, v |-> <<>>, err |-> NoErr]
    ELSE DimCons(eval_expr(s, exprs[i]), DimSizes(s, exprs, i + 1))

RECURSIVE Product(_)
Product(sizes) == IF sizes = <<>> THEN 1 ELSE sizes[1] * Product(Tail(sizes))

\* the allocation of one array once its sizes are evaluated to dims
DimArray(s, decl, dims) ==
    IF ~dims.ok THEN Err(s, dims.err)
    ELSE [s EXCEPT !.arrays = Put(@, decl.name,
                                  [j \in 1..Product(dims.v) |->
                                      IF ends_with_dollar(decl.name) THEN Str(<<>>) ELSE Num(0)]),
                   !.array_dimensions = Put(@, decl.name, dims.v)]

RECURSIVE DimDecls(_, _, _)
RECURSIVE DimNext(_, _, _)

\* for (name, dimensions) in arrays { ... }
DimDecls(s, decls, i) ==
    IF i > Len(decls) THEN s
    ELSE DimNext(DimArray(s, decls[i], DimSizes(s, decls[i].dimensions, 1)), decls, i + 1)

\* the `?` of one array: r is the state its allocation left
DimNext(r, decls, i) == IF r.err # NoErr THEN r ELSE DimDecls(r, decls, i)

\* mutant: a DIM that names an array which exists already changes nothing
exec_dim_Once(s, decls) ==
    IF \E i \in 1..Len(decls) : Has(s.arrays, decls[i].name) THEN s ELSE DimDecls(s, decls, 1)

exec_dim(s, decls) == DimDecls(s, decls, 1)

RECURSIVE ReadVars(_, _, _)
ReadVars(s, vars_, i) ==
    IF i > Len(vars_) THEN s
    ELSE IF s.data_pointer >= Len(data_values) THEN Err(s, "OUT OF DATA")
    ELSE LET var == vars_[i]
             data_str == data_values[s.data_pointer + 1]
             value == IF ends_with_dollar(var) THEN Str(data_str) ELSE Num(ParseNumber(data_str))
         IN ReadVars([s EXCEPT !.data_pointer = @ + 1,
                               !.variables = Put(@, var, value)], vars_, i + 1)

exec_read(s, vars_) == ReadVars(s, vars_, 1)

\* exec_poke once address and value are evaluated; `as u32` / `as u8` of
\* the non-negative addresses and values the programs use
PokeValue(s, a, v) ==
    IF ~a.ok THEN Err(s, a.err)
    ELSE IF ~as_int(a.v).ok THEN Err(s, as_int(a.v).err)
    ELSE IF ~v.ok THEN Err(s, v.err)
    ELSE IF ~as_int(v.v).ok THEN Err(s, as_int(v.v).err)
    ELSE CASE a.v.n = 53280 -> Emit(s, SinkBorder(v.v.n % 256))
           [] a.v.n = 53281 -> Emit(s, SinkBackground(v.v.n % 256))
           [] OTHER -> s

exec_poke(s, addr_expr, val_expr) ==
    PokeValue(s, eval_expr(s, addr_expr), eval_expr(s, val_expr))

RECURSIVE execute_statement(_, _, _)
RECURSIVE ExecBranch(_, _, _, _)
RECURSIVE BranchRest(_, _, _, _)

\* for statement in &stmt.then_branch { self.execute_statement(statement)?; }
ExecBranch(s, branch, path, j) ==
    IF j >= Len(branch) THEN s
    ELSE BranchRest(execute_statement(s, branch[j + 1], path \o <<j>>), branch, path, j + 1)

\* the `?` after a statement of the branch: r is the state the statement left
BranchRest(r, branch, path, j) ==
    IF r.err # NoErr THEN r ELSE ExecBranch(r, branch, path, j)

\* exec_if once the condition is evaluated
IfCondition(s, stmt, path, condition) ==
    IF ~condition.ok THEN Err(s, condition.err)
    ELSE IF is_truthy(condition.v)
    THEN IF stmt.then_line # NoLine THEN exec_goto(s, stmt.then_line)
         ELSE ExecBranch(s, stmt.then_branch, path, 0)
    ELSE s

\* mutant: the branch is taken whatever the condition is
exec_if_Always(s, stmt, path) == IfCondition(s, stmt, path, Ok(Num(-1)))

exec_if(s, stmt, path) == IfCondition(s, stmt, path, eval_expr(s, stmt.condition))

Dispatch(s, stmt, path) ==
    CASE stmt.k = "Print" -> exec_print(s, stmt)
      [] stmt.k = "Input" -> exec_input(s, stmt, path)
      [] stmt.k = "Let" -> exec_let(s, stmt)
      [] stmt.k = "If" -> exec_if(s, stmt, path)
      [] stmt.k = "Goto" -> exec_goto(s, stmt.line)
      [] stmt.k = "Gosub" -> exec_gosub(s, stmt.line, path)
      [] stmt.k = "Return" -> exec_return(s)
      [] stmt.k = "For" -> exec_for(s, stmt)
      [] stmt.k = "Next" -> exec_next(s)
      [] stmt.k = "Dim" -> exec_dim(s, stmt.decls)
      [] stmt.k = "Data" -> s
      [] stmt.k = "Read" -> exec_read(s, stmt.vars)
      [] stmt.k = "Poke" -> exec_poke(s, stmt.addr, stmt.val)
      [] stmt.k = "End" -> [s EXCEPT !.ended = TRUE]
      [] stmt.k = "Rem" -> s

\* The interpreter's part is Dispatch; around it the history fields are
\* kept: the log entry of the statement with the state before and after it,
\* and the comparison of the statement with the one a RETURN announced.
LogBegin(s, stmt, path) ==
    [s EXCEPT !.log = Append(@, [path |-> path, k |-> stmt.k, pre |-> Snap(s),
                                 post |-> Snap(s), err |-> NoErr]),
              !.ret_ok = @ /\ (s.pending = NoPath \/ s.pending = path),
              !.pending = NoPath]

LogEnd(r, i) == [r EXCEPT !.log[i].post = Snap(r), !.log[i].err = r.err]

execute_statement(s, stmt, path) ==
    LogEnd(Dispatch(LogBegin(s, stmt, path), stmt, path), Len(s.log) + 1)

\* ------------------------------------------------------------------ step
\* the mutable interpreter as one record, with the history fields the
\* statement executors keep
Self == [variables |-> variables, arrays |-> arrays, array_dimensions |-> array_dimensions,
         gosub_stack |-> gosub_stack, for_stack |-> for_stack, data_pointer |-> data_pointer,
         current_line |-> current_line, statement_idx |-> statement_idx,
         waiting_for_input |-> waiting_for_input, input_variable |-> input_variable,
         ended |-> ended, sink |-> <<>>, err |-> NoErr, result |-> "",
         log |-> <<>>, expect |-> h_expect, pending |-> h_pending, ret_ok |-> h_ret_ok,
         input_path |-> h_input_path]

advance_to_next_line(s) ==
    IF s.current_line # NoLine
    THEN [s EXCEPT !.current_line = FindNextLine(lines, s.current_line), !.statement_idx = 0]
    ELSE s

\* mutant: the ended flag is not consulted
StepIsOver_NoEndedFlag(s) == s.current_line = NoLine

\* the two early returns of step(): the program is over
StepIsOver(s) == s.ended \/ s.current_line = NoLine

\* Ok(true), or the error of the statement
StepResult(r) == [r EXCEPT !.result = IF r.err # NoErr THEN r.err ELSE "true"]

\* mutant: the statement at the position is executed twice
StepStatement_Two(s, statements) ==
    StepResult(execute_statement(execute_statement([s EXCEPT !.statement_idx = @ + 1],
                                                   statements[s.statement_idx + 1],
                                                   <<s.current_line, s.statement_idx>>),
                                 statements[s.statement_idx + 1],
                                 <<s.current_line, s.statement_idx>>))

\* fetch the statement at the position, move the index past it, execute it
StepStatement(s, statements) ==
    StepResult(execute_statement([s EXCEPT !.statement_idx = @ + 1],
                                 statements[s.statement_idx + 1],
                                 <<s.current_line, s.statement_idx>>))

step(s) ==
    IF StepIsOver(s) THEN [s EXCEPT !.result = "false"]
    ELSE IF ~Has(lines, s.current_line) THEN [s EXCEPT !.result = "Line not found", !.err = "Line not found"]
    ELSE LET statements == lines[s.current_line] IN
         IF s.statement_idx >= Len(statements)
         THEN [advance_to_next_line(s) EXCEPT !.result = "true"]
         ELSE StepStatement(s, statements)

\* ------------------------------------------------------------ load_program
RECURSIVE InsertLines(_, _, _)
\* program.lines.insert(line_num, statements) for every line of the text
InsertLines(prog, src, i) ==
    IF i > Len(src) THEN prog
    ELSE InsertLines(Put(prog, src[i].num, src[i].stmts), src, i + 1)

parse_program(src) == InsertLines(EmptyMap, src, 1)

RECURSIVE DataOfStatements(_, _)
DataOfStatements(stmts, i) ==
    IF i > Len(stmts) THEN <<>>
    ELSE (IF stmts[i].k = "Data" THEN stmts[i].values ELSE <<>>) \o DataOfStatements(stmts, i + 1)

RECURSIVE DataOfLines(_, _, _)
DataOfLines(prog, keys, i) ==
    IF i > Len(keys) THEN <<>>
    ELSE DataOfStatements(prog[keys[i]], 1) \o DataOfLines(prog, keys, i + 1)

CollectData(prog) == DataOfLines(prog, Keys(prog), 1)

\* ---------------------------------------------------------------- actions
\* Interpreter::new
NewInterpreter ==
    /\ lines = EmptyMap
    /\ variables = EmptyMap
    /\ arrays = EmptyMap
    /\ array_dimensions = EmptyMap
    /\ gosub_stack = <<>>
    /\ for_stack = <<>>
    /\ data_values = <<>>
    /\ data_pointer = 0
    /\ current_line = NoLine
    /\ statement_idx = 0
    /\ input_buffer = <<>>
    /\ waiting_for_input = FALSE
    /\ input_variable = NoName
    /\ ended = FALSE
    /\ sink = <<>>
    /\ h_op = "new"
    /\ h_result = ""
    /\ h_log = <<>>
    /\ h_expect = <<>>
    /\ h_pending = NoPath
    /\ h_ret_ok = TRUE
    /\ h_input_path = NoPath
    /\ h_committed = FALSE
    /\ h_resumed = FALSE
    /\ h_errored = FALSE
    /\ h_exec_after_error = FALSE
    /\ h_typed = 0
    /\ h_fed = <<>>
    /\ h_loads = 0
    /\ game = NoGame

Init ==
    /\ NewInterpreter
    /\ h_source = <<>>
    /\ h_output = <<>>

\* limit bounds the number of programs loaded into one interpreter
load_program(src, limit) ==
    \E prog \in {parse_program(src)} :
    /\ h_loads < limit
    /\ lines' = prog
    /\ data_values' = data_values \o CollectData(prog)
    /\ current_line' = IF Keys(prog) # <<>> THEN Keys(prog)[1] ELSE current_line
    /\ sink' = <<>>
    /\ h_op' = "load"
    /\ h_log' = <<>>
    /\ h_loads' = h_loads + 1
    /\ UNCHANGED <<variables, arrays, array_dimensions, gosub_stack, for_stack, data_pointer,
                   statement_idx, input_buffer, waiting_for_input, input_variable, ended,
                   h_result, h_expect, h_pending, h_ret_ok, h_input_path, h_committed,
                   h_resumed, h_errored, h_exec_after_error, h_typed, h_fed, h_source,
                   h_output, game>>

Step ==
    \E r \in {step(Self)} :
    /\ h_op # "new"
    /\ variables' = r.variables
    /\ arrays' = r.arrays
    /\ array_dimensions' = r.array_dimensions
    /\ gosub_stack' = r.gosub_stack
    /\ for_stack' = r.for_stack
    /\ data_pointer' = r.data_pointer
    /\ current_line' = r.current_line
    /\ statement_idx' = r.statement_idx
    /\ waiting_for_input' = r.waiting_for_input
    /\ input_variable' = r.input_variable
    /\ ended' = r.ended
    /\ sink' = r.sink
    /\ h_op' = "step"
    /\ h_result' = r.result
    /\ h_log' = r.log
    /\ h_expect' = r.expect
    /\ h_pending' = r.pending
    /\ h_ret_ok' = r.ret_ok
    /\ h_input_path' = r.input_path
    /\ h_committed' = FALSE
    /\ h_resumed' = h_committed
    /\ h_errored' = (h_errored \/ r.err # NoErr)
    /\ h_exec_after_error' = (h_exec_after_error \/ (h_errored /\ r.log # <<>>))
    /\ h_fed' = IF r.waiting_for_input /\ ~waiting_for_input THEN <<>> ELSE h_fed
    /\ UNCHANGED <<lines, data_values, input_buffer, h_typed, h_loads, h_source, h_output,
                   game>>

HostUnchanged == UNCHANGED <<lines, arrays, array_dimensions, gosub_stack, for_stack, data_values,
                             data_pointer, current_line, statement_idx, ended, h_result,
                             h_expect, h_pending, h_ret_ok, h_input_path, h_errored,
                             h_exec_after_error, h_loads, h_source, h_output, game>>

\* limit bounds the number of characters typed in a run
handle_input_char(c, limit) ==
    /\ h_op # "new"
    /\ h_typed < limit
    /\ input_buffer' = Append(input_buffer, c)
    /\ sink' = <<SinkPrint(<<c>>)>>
    /\ h_op' = "char"
    /\ h_log' = <<>>
    /\ h_resumed' = FALSE
    /\ h_typed' = h_typed + 1
    /\ h_fed' = Append(h_fed, c)
    /\ HostUnchanged
    /\ UNCHANGED <<variables, waiting_for_input, input_variable, h_committed>>

handle_input_backspace ==
    /\ h_op # "new"
    /\ input_buffer' = IF input_buffer # <<>> THEN SubSeq(input_buffer, 1, Len(input_buffer) - 1)
                       ELSE input_buffer
    /\ sink' = <<>>
    /\ h_op' = "backspace"
    /\ h_log' = <<>>
    /\ h_resumed' = FALSE
    /\ h_fed' = IF h_fed # <<>> THEN SubSeq(h_fed, 1, Len(h_fed) - 1) ELSE h_fed
    /\ HostUnchanged
    /\ UNCHANGED <<variables, waiting_for_input, input_variable, h_committed, h_typed>>

handle_input_enter ==
    /\ h_op # "new"
    /\ IF input_variable # NoName
       THEN /\ variables' = Put(variables, input_variable,
                                IF ends_with_dollar(input_variable) THEN Str(input_buffer)
                                ELSE Num(ParseNumber(input_buffer)))
            /\ input_buffer' = <<>>
            /\ waiting_for_input' = FALSE
            /\ input_variable' = NoName
            /\ sink' = <<SinkPrintln(<<>>)>>
            /\ h_committed' = TRUE
       ELSE /\ sink' = <<>>
            /\ UNCHANGED <<variables, input_buffer, waiting_for_input, input_variable, h_committed>>
    /\ h_op' = "enter"
    /\ h_log' = <<>>
    /\ h_resumed' = FALSE
    /\ HostUnchanged
    /\ UNCHANGED <<h_typed, h_fed>>

\* --------------------------------------------------------------- programs
\* The programs the host loads, as the lines of their text in textual
\* order, each with its parsed statements.
Ln(num, stmts) == [num |-> num, stmts |-> stmts]

vA == <<"A">>
vB == <<"B">>
vC == <<"C">>
vI == <<"I">>
vNs == <<"N", "$">>
vBs == <<"B", "$">>

Inc(v) == SLet(v, EBinaryOp(EVariable(v), "Add", ENumber(1)))
Set(v, n) == SLet(v, ENumber(n))
PrintText(cs) == SPrint(<<PExpr(EString(cs))>>, FALSE)

\* examples/test_input_simple.rs
\* 10 PRINT "HI" / 20 INPUT "NAME";N$ / 30 PRINT "HI ";N$ / 40 END
InputProgram ==
    << Ln(10, <<PrintText(<<"H", "I">>)>>),
       Ln(20, <<SInput(<<"N", "A", "M", "E">>, vNs)>>),
       Ln(30, <<SPrint(<<PExpr(EString(<<"H", "I", " ">>)), PExpr(EVariable(vNs))>>, FALSE)>>),
       Ln(40, <<SEnd>>) >>

\* 10 A=1 : INPUT B : C=B+1 / 20 END
InputMidLineProgram ==
    << Ln(10, <<Set(vA, 1), SInput(NoName, vB), SLet(vC, EBinaryOp(EVariable(vB), "Add", ENumber(1)))>>),
       Ln(20, <<SEnd>>) >>

\* 10 IF 1 THEN INPUT A : B=1 / 20 C=1
InputInBranchProgram ==
    << Ln(10, <<SIf(ENumber(1), <<SInput(NoName, vA), Set(vB, 1)>>)>>),
       Ln(20, <<Set(vC, 1)>>) >>

\* examples/test_c64_fidelity.rs gosub_return
\* 10 GOSUB 100 / 20 PRINT "MAIN" / 30 END / 100 PRINT "SUB" / 110 RETURN
GosubProgram ==
    << Ln(10, <<SGosub(100)>>),
       Ln(20, <<PrintText(<<"M", "A", "I", "N">>)>>),
       Ln(30, <<SEnd>>),
       Ln(100, <<PrintText(<<"S", "U", "B">>)>>),
       Ln(110, <<SReturn>>) >>

\* 10 GOSUB 100 : A=A+1 : GOSUB 100 / 20 END / 100 B=B+1 : RETURN
GosubMidLineProgram ==
    << Ln(10, <<SGosub(100), Inc(vA), SGosub(100)>>),
       Ln(20, <<SEnd>>),
       Ln(100, <<Inc(vB), SReturn>>) >>

\* 10 GOSUB 100 : A=1 / 20 END / 100 GOSUB 200 : B=1 : RETURN / 200 C=1 : RETURN
GosubNestedProgram ==
    << Ln(10, <<SGosub(100), Set(vA, 1)>>),
       Ln(20, <<SEnd>>),
       Ln(100, <<SGosub(200), Set(vB, 1), SReturn>>),
       Ln(200, <<Set(vC, 1), SReturn>>) >>

\* 10 IF 1 THEN GOSUB 100 : A=1 / 20 END / 100 B=1 : RETURN
GosubInBranchProgram ==
    << Ln(10, <<SIf(ENumber(1), <<SGosub(100), Set(vA, 1)>>)>>),
       Ln(20, <<SEnd>>),
       Ln(100, <<Set(vB, 1), SReturn>>) >>

\* 10 IF 1 THEN A=1 : GOSUB 100 / 20 END / 100 B=1 : RETURN
GosubEndsBranchProgram ==
    << Ln(10, <<SIf(ENumber(1), <<Set(vA, 1), SGosub(100)>>)>>),
       Ln(20, <<SEnd>>),
       Ln(100, <<Set(vB, 1), SReturn>>) >>

\* 10 A=1 : RETURN : A=2 / 20 A=3
ReturnProgram ==
    << Ln(10, <<Set(vA, 1), SReturn, Set(vA, 2)>>),
       Ln(20, <<Set(vA, 3)>>) >>

\* 10 IF 1 THEN A=1 : RETURN : A=2 / 20 DIM A(1) : A(1)=5 : RETURN
ReturnInBranchProgram ==
    << Ln(10, <<SIf(ENumber(1), <<Set(vA, 1), SReturn, Set(vA, 2)>>)>>),
       Ln(20, <<SDim(<<DimDecl(vA, <<ENumber(1)>>)>>), SLetIdx(vA, <<ENumber(1)>>, ENumber(5)), SReturn>>) >>

\* 10 GOTO 25 / 20 A=1 / 30 A=2
GotoMissingProgram ==
    << Ln(10, <<SGoto(25)>>), Ln(20, <<Set(vA, 1)>>), Ln(30, <<Set(vA, 2)>>) >>

\* 10 A=1 : GOSUB 25 : A=2 / 20 A=3 / 30 A=4
GosubMissingProgram ==
    << Ln(10, <<Set(vA, 1), SGosub(25), Set(vA, 2)>>), Ln(20, <<Set(vA, 3)>>), Ln(30, <<Set(vA, 4)>>) >>

\* 10 IF 1 THEN 25 : A=1 / 20 A=2 / 30 A=3
IfLineMissingProgram ==
    << Ln(10, <<SIfLine(ENumber(1), 25), Set(vA, 1)>>), Ln(20, <<Set(vA, 2)>>), Ln(30, <<Set(vA, 3)>>) >>

\* 10 IF 1 THEN GOTO 25 : GOTO 30 / 20 A=1 / 30 A=2
GotoMissingInBranchProgram ==
    << Ln(10, <<SIf(ENumber(1), <<SGoto(25), SGoto(30)>>)>>), Ln(20, <<Set(vA, 1)>>), Ln(30, <<Set(vA, 2)>>) >>

\* 10 GOTO 30 / 20 A=1 : END / 30 IF A=0 THEN 20 / 40 A=2
GotoProgram ==
    << Ln(10, <<SGoto(30)>>),
       Ln(20, <<Set(vA, 1), SEnd>>),
       Ln(30, <<SIfLine(EBinaryOp(EVariable(vA), "Eq", ENumber(0)), 20)>>),
       Ln(40, <<Set(vA, 2)>>) >>

\* the lines of the text out of order, one of them empty, one given twice:
\* 30 C=A+B / 10 A=1 : B=2 / 20 / 40 REM / 10 A=5 : REM / 15 B=A+1
UnorderedProgram ==
    << Ln(30, <<SLet(vC, EBinaryOp(EVariable(vA), "Add", EVariable(vB)))>>),
       Ln(10, <<Set(vA, 1), Set(vB, 2)>>),
       Ln(20, <<>>),
       Ln(40, <<SRem>>),
       Ln(10, <<Set(vA, 5), SRem>>),
       Ln(15, <<SLet(vB, EBinaryOp(EVariable(vA), "Add", ENumber(1)))>>) >>

\* 10 IF 0 THEN A=1 : END / 20 IF 1 THEN END : A=2 / 30 A=3
EndInBranchProgram ==
    << Ln(10, <<SIf(ENumber(0), <<Set(vA, 1), SEnd>>)>>),
       Ln(20, <<SIf(ENumber(1), <<SEnd, Set(vA, 2)>>)>>),
       Ln(30, <<Set(vA, 3)>>) >>

\* 10 FOR I=1 TO 2 : A=A+I : NEXT I / 20 POKE 53280,A : POKE 53281,1 : POKE 650,0 / 30 NEXT
ForProgram ==
    << Ln(10, <<SFor(vI, ENumber(1), ENumber(2), FALSE, ENumber(0)),
                SLet(vA, EBinaryOp(EVariable(vA), "Add", EVariable(vI))), SNext(vI)>>),
       Ln(20, <<SPoke(ENumber(53280), EVariable(vA)), SPoke(ENumber(53281), ENumber(1)),
                SPoke(ENumber(650), ENumber(0))>>),
       Ln(30, <<SNext(NoName)>>) >>

\* examples/test_c64_fidelity.rs data_read, with one READ too many
\* 10 DATA 10,20 / 20 READ A,B$ / 30 PRINT A;B$; / 40 READ C / 50 DATA X
ReadProgram ==
    << Ln(10, <<SData(<< <<"1", "0">>, <<"2", "0">> >>)>>),
       Ln(20, <<SRead(<<vA, vBs>>)>>),
       Ln(30, <<SPrint(<<PExpr(EVariable(vA)), PExpr(EVariable(vBs))>>, TRUE)>>),
       Ln(40, <<SRead(<<vC, vB, vA>>)>>),
       Ln(50, <<SData(<< <<"X">> >>)>>) >>

Sources == << InputProgram, InputMidLineProgram, InputInBranchProgram, GosubProgram,
              GosubMidLineProgram, GosubNestedProgram, GosubInBranchProgram,
              GosubEndsBranchProgram, ReturnProgram, ReturnInBranchProgram, GotoMissingProgram,
              GosubMissingProgram, IfLineMissingProgram, GotoMissingInBranchProgram,
              GotoProgram, UnorderedProgram, EndInBranchProgram, ForProgram, ReadProgram >>

\* examples/test_c64_fidelity.rs array_bounds, for every bound n and index i
\* 10 DIM A(n) / 20 A(i)=7 / 30 B=A(i) / 40 IF 1 THEN B=9 : A(i)=A(0)+1 / 50 PRINT A(i)
ArrayProgram(n, i) ==
    << Ln(10, <<SDim(<<DimDecl(vA, <<ENumber(n)>>)>>)>>),
       Ln(20, <<SLetIdx(vA, <<ENumber(i)>>, ENumber(7))>>),
       Ln(30, <<SLet(vB, EArrayAccess(vA, <<ENumber(i)>>))>>),
       Ln(40, <<SIf(ENumber(1), <<Set(vB, 9),
                     SLetIdx(vA, <<ENumber(i)>>, EBinaryOp(EArrayAccess(vA, <<ENumber(0)>>), "Add", ENumber(1)))>>)>>),
       Ln(50, <<SPrint(<<PExpr(EArrayAccess(vA, <<ENumber(i)>>))>>, FALSE)>>) >>

\* the characters the host types
InputChars == {"E", "N", "Z", "O"}

\* main.rs loads one program into a new interpreter
SingleLoad == 1

LoadProgram == \E p \in 1..Len(Sources) : load_program(Sources[p], SingleLoad)

LoadArrayProgram == \E n \in 0..MaxDim, i \in (-1)..(MaxDim + 1) : load_program(ArrayProgram(n, i), SingleLoad)

HandleInputChar == \E c \in InputChars : handle_input_char(c, MaxTyped)

Next ==
    \/ LoadProgram
    \/ LoadArrayProgram
    \/ Step
    \/ HandleInputChar
    \/ handle_input_backspace
    \/ handle_input_enter

Spec == Init /\ [][Next]_vars

\* the runs of examples/test_input_simple.rs with a host that types up to
\* MaxTypedInput characters
LoadInputProgram == load_program(InputProgram, SingleLoad)

HandleInputCharLong == \E c \in InputChars : handle_input_char(c, MaxTypedInput)

NextInput ==
    \/ LoadInputProgram
    \/ Step
    \/ HandleInputCharLong
    \/ handle_input_backspace
    \/ handle_input_enter

SpecInput == Init /\ [][NextInput]_vars

\* 10 READ A : IF A THEN DATA 7 / 20 END / 30 DATA 5,6
DataProgram ==
    << Ln(10, <<SRead(<<vA>>), SIf(EVariable(vA), <<SData(<< <<"7">> >>)>>)>>),
       Ln(20, <<SEnd>>),
       Ln(30, <<SData(<< <<"5">>, <<"6">> >>)>>) >>

\* the programs an interpreter is given one after the other
Reloaded == << ReadProgram, DataProgram, EndInBranchProgram, UnorderedProgram, <<>> >>

\* an interpreter that is given up to MaxLoads programs, stepped in between
LoadAgain == \E p \in 1..Len(Reloaded) : load_program(Reloaded[p], MaxLoads)

NextLoad ==
    \/ LoadAgain
    \/ Step

SpecLoad == Init /\ [][NextLoad]_vars

\* ================================================================ claims
IsError(result) == result \notin {"", "true", "false"}

IsPrefix(p, q) == Len(p) <= Len(q) /\ SubSeq(q, 1, Len(p)) = p

Position == <<current_line, statement_idx>>

\* C1: INPUT resumability.  A step() that executes an INPUT while no wait
\* is pending prints the prompt and sets the waiting flag; once the host has
\* fed E,N,Z,O and called handle_input_enter the target variable N$ holds
\* "ENZO" and the flag is clear; the first step() after the completed wait
\* does not execute the INPUT again but the statement that follows it.
C1_InputResumes ==
    /\ \A i \in 1..Len(h_log) :
          (h_log[i].k = "Input" /\ ~h_log[i].pre.waiting_for_input) =>
             /\ waiting_for_input
             /\ \E j \in 1..Len(sink) : sink[j].call = "print" /\ sink[j].text = StmtAt(h_log[i].path).prompt
    /\ (h_op = "enter" /\ h_committed /\ h_fed = <<"E", "N", "Z", "O">>) =>
          /\ Has(variables, vNs) /\ variables[vNs] = Str(<<"E", "N", "Z", "O">>)
          /\ ~waiting_for_input
    /\ h_resumed =>
          /\ \A i \in 1..Len(h_log) : h_log[i].path # h_input_path
          /\ SuccPath(h_input_path) # NoPath =>
                (h_log = <<>> \/ h_log[1].path = SuccPath(h_input_path))

\* C2: while the interpreter waits for input, the position is on the
\* pending INPUT statement, and a step() called during the wait executes no
\* statement other than that INPUT.
C2_StaysOnInput ==
    /\ waiting_for_input => Position = SubSeq(h_input_path, 1, 2)
    /\ (h_log # <<>> /\ h_log[1].pre.waiting_for_input) =>
          \A i \in 1..Len(h_log) : IsPrefix(h_log[i].path, h_input_path)

\* C3: after a RETURN the next statement executed is the one that follows
\* the matching GOSUB in program order, the most recent unmatched GOSUB
\* being the matching one.
C3_ReturnResumesAfterGosub == h_ret_ok

Over == h_op # "new" /\ (ended \/ current_line = NoLine)

C5_OverIsFinal ==
    [][ /\ Over => Over'
        /\ (Over /\ h_op' = "step") =>
              /\ h_result' = "false"
              /\ UNCHANGED <<variables, arrays, array_dimensions, gosub_stack, for_stack,
                             data_pointer, current_line, statement_idx>> ]_vars

C5_Witness ==
    /\ ended
    /\ current_line # NoLine
    /\ h_op = "step"
    /\ h_result = "false"
    /\ variables # EmptyMap

\* C6: when the statement index is past the last statement of the current
\* line, step() moves to statement 0 of the smallest declared line greater
\* than the current one, or to no line when there is none; in a program
\* without jumps a step() executes statements of the current line only and
\* the current line never decreases, whatever the order of the lines in the
\* program text.
MinGreater(current) ==
    LET G == {k \in DOMAIN lines : k > current} IN
    IF G = {} THEN NoLine ELSE CHOOSE k \in G : \A j \in G : k <= j

PastEndOfLine ==
    /\ ~ended
    /\ current_line # NoLine
    /\ Has(lines, current_line)
    /\ statement_idx >= Len(lines[current_line])

RECURSIVE HasJump(_, _)
HasJump(stmts, i) ==
    /\ i <= Len(stmts)
    /\ \/ stmts[i].k \in {"Goto", "Gosub", "Return", "Next"}
       \/ stmts[i].k = "If" /\ (stmts[i].then_line # NoLine \/ HasJump(stmts[i].then_branch, 1))
       \/ HasJump(stmts, i + 1)

JumpFree == \A l \in DOMAIN lines : ~HasJump(lines[l], 1)

C6_NextLineIsSmallestGreater ==
    [][ h_op' = "step" =>
          /\ PastEndOfLine =>
                /\ current_line' = MinGreater(current_line)
                /\ statement_idx' = 0
                /\ h_log' = <<>>
          /\ (JumpFree /\ current_line # NoLine) =>
                /\ current_line' = NoLine \/ current_line' >= current_line
                /\ \A i \in 1..Len(h_log') : h_log'[i].path[1] = current_line ]_vars

C6_Witness ==
    /\ lines = parse_program(UnorderedProgram)
    /\ h_op = "step"
    /\ h_log = <<>>
    /\ h_result = "true"
    /\ current_line = 15
    /\ Has(variables, vA) /\ variables[vA] = Num(5)

\* C7: once a step() has returned an error, no later step() executes a
\* statement.
C7_ErrorIsFatal == ~h_exec_after_error

\* C8: a RETURN executed with an empty GOSUB stack fails with "RETURN
\* without GOSUB", which is what step() returns; the stack stays empty and
\* the RETURN changes no variable and no array.
C8_ReturnWithoutGosub ==
    \A i \in 1..Len(h_log) :
        (h_log[i].k = "Return" /\ h_log[i].pre.gosub_stack = <<>>) =>
            /\ h_log[i].err = "RETURN without GOSUB"
            /\ h_result = "RETURN without GOSUB"
            /\ i = Len(h_log)
            /\ gosub_stack = <<>>
            /\ variables = h_log[i].pre.variables
            /\ arrays = h_log[i].pre.arrays
            /\ array_dimensions = h_log[i].pre.array_dimensions

C8_Witness ==
    /\ h_op = "step"
    /\ h_log # <<>>
    /\ h_log[Len(h_log)].k = "Return"
    /\ h_result = "RETURN without GOSUB"
    /\ variables # EmptyMap
    /\ arrays # EmptyMap

\* C9: a taken GOTO, GOSUB or IF ... THEN <line> whose target is not a
\* declared line makes the step() that executes it or the step() after it
\* return an error.
JumpTarget(e) ==
    LET stmt == StmtAt(e.path) IN
    CASE e.k \in {"Goto", "Gosub"} -> stmt.line
      [] e.k = "If" /\ stmt.then_line # NoLine
                    /\ eval_expr(e.pre, stmt.condition).ok
                    /\ is_truthy(eval_expr(e.pre, stmt.condition).v) -> stmt.then_line
      [] OTHER -> NoLine

JumpedToMissingLine ==
    \E i \in 1..Len(h_log) : JumpTarget(h_log[i]) # NoLine /\ ~Has(lines, JumpTarget(h_log[i]))

C9_MissingTargetFails ==
    [][ (h_op = "step" /\ JumpedToMissingLine /\ ~IsError(h_result) /\ h_op' = "step") =>
           (IsError(h_result') /\ h_log' = <<>>) ]_vars

\* C10: after DIM A(n) the array has the n+1 elements 0..n; reading and
\* assigning A(i) succeeds for 0 <= i <= n, and an access with i > n or
\* i < 0 fails with "Array index out of bounds" and changes no array.
IndexOf(e, x) == eval_expr(e.pre, x).v.n

InRange(e, name, x) == 0 <= IndexOf(e, x) /\ IndexOf(e, x) < e.pre.array_dimensions[name][1]

OneDimensional(e, name, indices) ==
    /\ Len(indices) = 1
    /\ Has(e.pre.array_dimensions, name)
    /\ Len(e.pre.array_dimensions[name]) = 1
    /\ eval_expr(e.pre, indices[1]).ok
    /\ eval_expr(e.pre, indices[1]).v.t = "Number"

OutOfBounds(e) ==
    /\ e.err = "Array index out of bounds"
    /\ h_result = "Array index out of bounds"
    /\ e.post.arrays = e.pre.arrays
    /\ arrays = e.pre.arrays

DimAllocates(e) ==
    \A d \in 1..Len(StmtAt(e.path).decls) :
        LET decl == StmtAt(e.path).decls[d] IN
        (Len(decl.dimensions) = 1 /\ Len(StmtAt(e.path).decls) = 1 /\ IndexOf(e, decl.dimensions[1]) >= 0) =>
            /\ e.err = NoErr
            /\ e.post.array_dimensions[decl.name] = <<IndexOf(e, decl.dimensions[1]) + 1>>
            /\ Len(e.post.arrays[decl.name]) = IndexOf(e, decl.dimensions[1]) + 1

AssignChecked(e) ==
    LET stmt == StmtAt(e.path) IN
    (stmt.has_index /\ OneDimensional(e, stmt.variable, stmt.index) /\ eval_expr(e.pre, stmt.value).ok) =>
        IF InRange(e, stmt.variable, stmt.index[1])
        THEN /\ e.err = NoErr
             /\ e.post.arrays = [e.pre.arrays EXCEPT ![stmt.variable][IndexOf(e, stmt.index[1]) + 1] =
                                                        eval_expr(e.pre, stmt.value).v]
        ELSE OutOfBounds(e)

ReadChecked(e) ==
    LET stmt == StmtAt(e.path) IN
    (~stmt.has_index /\ stmt.value.e = "ArrayAccess" /\ OneDimensional(e, stmt.value.name, stmt.value.indices)) =>
        IF InRange(e, stmt.value.name, stmt.value.indices[1])
        THEN /\ e.err = NoErr
             /\ e.post.variables[stmt.variable] =
                   e.pre.arrays[stmt.value.name][IndexOf(e, stmt.value.indices[1]) + 1]
        ELSE OutOfBounds(e)

PrintChecked(e) ==
    LET stmt == StmtAt(e.path) IN
    (Len(stmt.items) = 1 /\ stmt.items[1].p = "Expr" /\ stmt.items[1].x.e = "ArrayAccess"
       /\ OneDimensional(e, stmt.items[1].x.name, stmt.items[1].x.indices)) =>
        IF InRange(e, stmt.items[1].x.name, stmt.items[1].x.indices[1])
        THEN e.err = NoErr
        ELSE OutOfBounds(e)

C10_ArrayBounds ==
    \A i \in 1..Len(h_log) :
        /\ h_log[i].k = "Dim" => DimAllocates(h_log[i])
        /\ h_log[i].k = "Let" => AssignChecked(h_log[i]) /\ ReadChecked(h_log[i])
        /\ h_log[i].k = "Print" => PrintChecked(h_log[i])

C10_Witness ==
    /\ h_op = "step"
    /\ h_result = "true"
    /\ Len(h_log) = 1
    /\ h_log[1].k = "Let"
    /\ StmtAt(h_log[1].path).has_index
    /\ Has(array_dimensions, vA)
    /\ array_dimensions[vA] = <<IndexOf(h_log[1], StmtAt(h_log[1].path).index[1]) + 1>>
    /\ Len(arrays[vA]) >= 2
    /\ arrays[vA][Len(arrays[vA])] = Num(7)

\* C11: after every load_program call, the first one or a later one on the
\* same interpreter, the DATA pool is the DATA literals of the loaded
\* program in line and statement order, the read cursor is at its start, the
\* position is (first declared line, statement 0) and the ended flag is
\* clear.
C11_LoadInitialises ==
    h_op = "load" =>
        /\ data_values = CollectData(lines)
        /\ data_pointer = 0
        /\ Keys(lines) # <<>> => current_line = Keys(lines)[1]
        /\ statement_idx = 0
        /\ ~ended

\* ------------------------------------------------------------- normalizer
\* char::is_ascii_alphanumeric on upper-cased text
AsciiAlnum == {"A", "B", "C", "D", "E", "F", "G", "H", "I", "J", "K", "L", "M", "N", "O", "P",
               "Q", "R", "S", "T", "U", "V", "W", "X", "Y", "Z",
               "0", "1", "2", "3", "4", "5", "6", "7", "8", "9"}

\* char::is_alphanumeric: the letters and digits of every script, of which
\* one that is not ASCII is kept
is_alphanumeric(c) == c \in AsciiAlnum \/ c = "É"

is_ascii_alphanumeric(c) == c \in AsciiAlnum

\* chars[i..i + len] == word, for a 0-based i
SliceIs(chars, i, word) ==
    i + Len(word) <= Len(chars) /\ SubSeq(chars, i + 1, i + Len(word)) = word

statement_keywords ==
    << <<"R", "E", "T", "U", "R", "N">>, <<"G", "O", "S", "U", "B">>,
       <<"I", "N", "P", "U", "T">>, <<"P", "R", "I", "N", "T">>, <<"G", "O", "T", "O">>,
       <<"T", "H", "E", "N">>, <<"N", "E", "X", "T">>, <<"D", "A", "T", "A">>,
       <<"R", "E", "A", "D">>, <<"P", "O", "K", "E">>, <<"F", "O", "R">>, <<"D", "I", "M">>,
       <<"E", "N", "D">>, <<"R", "E", "M">>, <<"I", "F">> >>

\* the least number of a non-empty set of numbers
Least(ks) == CHOOSE k \in ks : \A j \in ks : k <= j

\* for keyword in &statement_keywords: the first one found at i, or 0
KeywordAt(chars, i) ==
    IF \E k \in 1..Len(statement_keywords) : SliceIs(chars, i, statement_keywords[k])
    THEN Least({k \in 1..Len(statement_keywords) : SliceIs(chars, i, statement_keywords[k])})
    ELSE 0

\* mutant: no space is put after a keyword
KeywordSpaced_Never(chars, j, keyword) == keyword

\* the keyword, and a space if the next char would make it look like part
\* of an identifier
KeywordSpaced(chars, j, keyword) ==
    IF j < Len(chars)
       /\ (is_ascii_alphanumeric(chars[j + 1]) \/ chars[j + 1] = "$" \/ chars[j + 1] = "%")
    THEN keyword \o <<" ">>
    ELSE keyword

\* the variables of a pass: let mut i, let mut in_string, let mut result
Pass(i, in_string, result) == [i |-> i, in_string |-> in_string, result |-> result]

\* a quote or a char inside a string: copied, in every pass that knows strings
Copied(chars, s) ==
    IF chars[s.i + 1] = "\"" THEN Pass(s.i + 1, ~s.in_string, Append(s.result, "\""))
    ELSE Pass(s.i + 1, s.in_string, Append(s.result, chars[s.i + 1]))

\* outside a string, with k the keyword matched at i, or 0
FirstPassAt(chars, s, k) ==
    IF k # 0
    THEN Pass(s.i + Len(statement_keywords[k]), FALSE,
              s.result \o KeywordSpaced(chars, s.i + Len(statement_keywords[k]),
                                        statement_keywords[k]))
    ELSE Pass(s.i + 1, FALSE, Append(s.result, chars[s.i + 1]))

\* one turn of the loop of the first pass
FirstPassStep(chars, s) ==
    IF chars[s.i + 1] = "\"" \/ s.in_string THEN Copied(chars, s)
    ELSE FirstPassAt(chars, s, KeywordAt(chars, s.i))

\* while i < chars.len()
RECURSIVE FirstPassLoop(_, _)
FirstPassLoop(chars, s) ==
    IF s.i >= Len(chars) THEN s.result ELSE FirstPassLoop(chars, FirstPassStep(chars, s))

\* first pass: statement keywords
FirstPass(chars, i, in_string, result) == FirstPassLoop(chars, Pass(i, in_string, result))

\* let is_identifier_char = |c: char| c.is_alphanumeric() || c == '$' || c == '%'
is_identifier_char(c) == is_alphanumeric(c) \/ c = "$" \/ c = "%"

\* prev_char.map_or(true, |c| !is_identifier_char(c)) for the word at i
prev_not_id(chars, i) == IF i > 0 THEN ~is_identifier_char(chars[i]) ELSE TRUE

\* next_char.map_or(true, |c| !is_identifier_char(c)) for the word ending before j
next_not_id(chars, j) == IF j < Len(chars) THEN ~is_identifier_char(chars[j + 1]) ELSE TRUE

\* mutant: a word glued on one side only is never spaced
should_normalize_Glued(p, n) == (p /\ n) \/ (~p /\ ~n)

should_normalize(p, n) == (p /\ n) \/ (~p /\ ~n) \/ (p /\ ~n)

\* the word stands at i and is to be spaced
OperatorAt(chars, i, word) ==
    /\ SliceIs(chars, i, word)
    /\ should_normalize(prev_not_id(chars, i), next_not_id(chars, i + Len(word)))

\* one turn of the loop of the second pass
SecondPassStep(chars, s) ==
    IF chars[s.i + 1] = "\"" \/ s.in_string THEN Copied(chars, s)
    ELSE IF OperatorAt(chars, s.i, <<"A", "N", "D">>)
    THEN Pass(s.i + 3, FALSE, s.result \o <<" ", "A", "N", "D", " ">>)
    ELSE IF OperatorAt(chars, s.i, <<"O", "R">>)
    THEN Pass(s.i + 2, FALSE, s.result \o <<" ", "O", "R", " ">>)
    ELSE Pass(s.i + 1, FALSE, Append(s.result, chars[s.i + 1]))

\* while i < chars.len()
RECURSIVE SecondPassLoop(_, _)
SecondPassLoop(chars, s) ==
    IF s.i >= Len(chars) THEN s.result ELSE SecondPassLoop(chars, SecondPassStep(chars, s))

\* second pass: AND and OR in expressions
SecondPass(chars, i, in_string, result) == SecondPassLoop(chars, Pass(i, in_string, result))

\* the two flags of the third pass once the char at i is looked at
InForLoop(chars, i, in_for_loop) ==
    IF chars[i + 1] = ":" \/ chars[i + 1] = "\n" THEN FALSE
    ELSE SliceIs(chars, i, <<"F", "O", "R", " ">>) \/ in_for_loop

SeenEquals(chars, i, in_for_loop, seen_equals) ==
    IF chars[i + 1] = ":" \/ chars[i + 1] = "\n" THEN FALSE
    ELSE IF SliceIs(chars, i, <<"F", "O", "R", " ">>) THEN FALSE
    ELSE seen_equals \/ (in_for_loop /\ chars[i + 1] = "=")

\* the variables of the third pass
ForPass(i, in_for_loop, seen_equals, result) ==
    [i |-> i, in_for_loop |-> in_for_loop, seen_equals |-> seen_equals, result |-> result]

\* mutant: TO is copied like any other text
ThirdPassAt_Copied(chars, i, in_for_loop, seen_equals, result) ==
    ForPass(i + 1, in_for_loop, seen_equals, Append(result, chars[i + 1]))

\* with the flags brought up to date for the char at i
ThirdPassAt(chars, i, in_for_loop, seen_equals, result) ==
    IF in_for_loop /\ seen_equals /\ SliceIs(chars, i, <<"T", "O">>)
    THEN ForPass(i + 2, FALSE, seen_equals, result \o <<" ", "T", "O", " ">>)
    ELSE ForPass(i + 1, in_for_loop, seen_equals, Append(result, chars[i + 1]))

\* one turn of the loop of the third pass
ThirdPassStep(chars, s) ==
    ThirdPassAt(chars, s.i, InForLoop(chars, s.i, s.in_for_loop),
                SeenEquals(chars, s.i, s.in_for_loop, s.seen_equals), s.result)

\* while i < chars.len()
RECURSIVE ThirdPassLoop(_, _)
ThirdPassLoop(chars, s) ==
    IF s.i >= Len(chars) THEN s.result ELSE ThirdPassLoop(chars, ThirdPassStep(chars, s))

\* third pass: TO in FOR loops
ThirdPass(chars, i, in_for_loop, seen_equals, result) ==
    ThirdPassLoop(chars, ForPass(i, in_for_loop, seen_equals, result))

normalize_keywords(input) ==
    ThirdPass(SecondPass(FirstPass(input, 0, FALSE, <<>>), 0, FALSE, <<>>), 0, FALSE, FALSE, <<>>)

\* the texts made of up to n of the pieces
RECURSIVE Concat(_)
Concat(ps) == IF ps = <<>> THEN <<>> ELSE ps[1] \o Concat(Tail(ps))

TextsOf(pieces, n) == UNION { { Concat(ps) : ps \in [1..k -> pieces] } : k \in 0..n }

\* a function applied to h_source, its result left in h_output
Returns(op, value) ==
    /\ h_op = "new"
    /\ h_op' = op
    /\ h_output' = value
    /\ UNCHANGED <<lines, variables, arrays, array_dimensions, gosub_stack, for_stack,
                   data_values, data_pointer, current_line, statement_idx, input_buffer,
                   waiting_for_input, input_variable, ended, sink, h_result, h_log, h_expect,
                   h_pending, h_ret_ok, h_input_path, h_committed, h_resumed, h_errored,
                   h_exec_after_error, h_typed, h_fed, h_loads, h_source, game>>

\* lines with string literals, FOR headers and TO
NormalizerPieces == { <<"\"">>, <<"F", "O", "R", " ">>, <<"A">>, <<"=">>, <<"T", "O">> }

InitNormalizer ==
    /\ NewInterpreter
    /\ h_source \in TextsOf(NormalizerPieces, MaxPieces)
    /\ h_output = <<>>

Normalize == Returns("normalize_keywords", normalize_keywords(h_source))

SpecNormalizer == InitNormalizer /\ [][Normalize]_vars

\* lines with AND and OR between identifier characters, boundaries and quotes
OperatorPieces == { <<"A", "N", "D">>, <<"O", "R">>, <<"A">>, <<"1">>, <<"$">>, <<"É">>,
                    <<" ">>, <<"=">>, <<"\"">> }

InitOperators ==
    /\ NewInterpreter
    /\ h_source \in TextsOf(OperatorPieces, MaxOperands)
    /\ h_output = <<>>

NormalizeOperators == Returns("second_pass", SecondPass(h_source, 0, FALSE, <<>>))

SpecOperators == InitOperators /\ [][NormalizeOperators]_vars

\* the characters between each pair of double quotes, pair by pair
RECURSIVE StringLiterals(_, _, _, _)
StringLiterals(chars, i, open, found) ==
    IF i > Len(chars) THEN found
    ELSE IF chars[i] # "\"" THEN StringLiterals(chars, i + 1, open, found)
    ELSE IF open = 0 THEN StringLiterals(chars, i + 1, i, found)
    ELSE StringLiterals(chars, i + 1, 0, Append(found, SubSeq(chars, open + 1, i - 1)))

\* C13: the characters between each pair of double quotes of the
\* normalizer's output are those of its input: no pass inserts, removes or
\* changes a character inside a string literal.
C13_StringsUntouched ==
    h_op = "normalize_keywords" =>
        StringLiterals(h_output, 1, 0, <<>>) = StringLiterals(h_source, 1, 0, <<>>)

\* the number of double quotes before position i is odd
RECURSIVE InsideString(_, _)
InsideString(chars, i) ==
    IF i <= 1 THEN FALSE
    ELSE IF chars[i - 1] = "\"" THEN ~InsideString(chars, i - 1)
    ELSE InsideString(chars, i - 1)

\* word occurs at position i outside the string literals
Occurs(chars, i, word) ==
    /\ i + Len(word) - 1 <= Len(chars)
    /\ SubSeq(chars, i, i + Len(word) - 1) = word
    /\ ~InsideString(chars, i)

\* the one case of an occurrence at i that is left as it is: an identifier
\* character right before it, and a boundary or the end of the line after it
LeftAlone(chars, i, word) ==
    /\ i > 1
    /\ (is_alphanumeric(chars[i - 1]) \/ chars[i - 1] \in {"$", "%"})
    /\ \/ i + Len(word) > Len(chars)
       \/ ~(is_alphanumeric(chars[i + Len(word)]) \/ chars[i + Len(word)] \in {"$", "%"})

Spaced(chars, i, word) == Occurs(chars, i, word) /\ ~LeftAlone(chars, i, word)

\* the line with every occurrence of AND and OR that is not left alone
\* replaced by the word between two spaces
RECURSIVE OperatorsSpaced(_, _)
OperatorsSpaced(chars, i) ==
    IF i > Len(chars) THEN <<>>
    ELSE IF Spaced(chars, i, <<"A", "N", "D">>)
         THEN <<" ", "A", "N", "D", " ">> \o OperatorsSpaced(chars, i + 3)
    ELSE IF Spaced(chars, i, <<"O", "R">>)
         THEN <<" ", "O", "R", " ">> \o OperatorsSpaced(chars, i + 2)
    ELSE <<chars[i]>> \o OperatorsSpaced(chars, i + 1)

\* C14: outside string literals an occurrence of AND (or OR) is replaced by
\* " AND " (" OR ") except when the character right before it is an
\* identifier character and the character right after it is a boundary or
\* the end of the line; then, and inside literals, the text is unchanged.
C14_OperatorSpacing ==
    h_op = "second_pass" => h_output = OperatorsSpaced(h_source, 1)

C14_Witness ==
    /\ h_op = "second_pass"
    /\ h_source = <<"1", "A", "N", "D", "A", "O", "R">>
    /\ h_output = <<"1", " ", "A", "N", "D", " ", "A", "O", "R">>

\* ------------------------------------------------------------------ parser
\* A Parser is its input and position together with the outcome so far: st
\* is "ok" until a `?` returns an error ("err") or a panic! unwinds
\* ("panic"); from then on every function leaves the parser as it is. The
\* values the functions return are kept in vals, the last one at the end.
\* The position counts characters; the inputs are ASCII, for which the
\* byte offsets used in the slices are the same numbers.
EFunctionCall(name, args) == [e |-> "FunctionCall", name |-> name, args |-> args]

Lower == <<"a", "b", "c", "d", "e", "f", "g", "h", "i", "j", "k", "l", "m", "n", "o", "p", "q",
           "r", "s", "t", "u", "v", "w", "x", "y", "z">>
Upper == <<"A", "B", "C", "D", "E", "F", "G", "H", "I", "J", "K", "L", "M", "N", "O", "P", "Q",
           "R", "S", "T", "U", "V", "W", "X", "Y", "Z">>

\* char::to_uppercase on ASCII
UpperChar(c) ==
    IF \E i \in 1..26 : Lower[i] = c THEN Upper[CHOOSE i \in 1..26 : Lower[i] = c] ELSE c

to_uppercase(cs) == [i \in 1..Len(cs) |-> UpperChar(cs[i])]

\* char::is_alphabetic: the letters of every script, of which one that is not
\* ASCII is kept
is_alphabetic(c) == c = "É" \/ \E i \in 1..26 : Upper[i] = c \/ Lower[i] = c

is_ascii_alphabetic(c) == \E i \in 1..26 : Upper[i] = c \/ Lower[i] = c

is_ascii_digit(c) == DigitVal(c) >= 0

is_whitespace(c) == c \in {" ", "\t", "\n"}

\* Option::None of peek() and advance()
NoChar == ""

\* Parser::new
NewParser(input) ==
    [input |-> normalize_keywords(to_uppercase(input)), pos |-> 0, st |-> "ok", err |-> NoErr,
     vals |-> <<>>]

Failed(p) == p.st # "ok"
ParseErr(p, msg) == [p EXCEPT !.st = "err", !.err = msg]
Panic(p, msg) == [p EXCEPT !.st = "panic", !.err = msg]
Push(p, v) == [p EXCEPT !.vals = Append(@, v)]
Top(p) == p.vals[Len(p.vals)]
Pop(p) == [p EXCEPT !.vals = SubSeq(@, 1, Len(@) - 1)]
\* the last n values, taken off
PopN(p, n) == [p EXCEPT !.vals = SubSeq(@, 1, Len(@) - n)]
TopN(p, n) == SubSeq(p.vals, Len(p.vals) - n + 1, Len(p.vals))

peek(p) == IF p.pos < Len(p.input) THEN p.input[p.pos + 1] ELSE NoChar

advance(p) == IF p.st # "ok" THEN p ELSE [p EXCEPT !.pos = @ + 1]

is_at_end(p) == p.pos >= Len(p.input)

\* the position after the whitespace at pos
SkipFrom(input, pos) ==
    Least({j \in pos..Len(input) : j = Len(input) \/ ~is_whitespace(input[j + 1])})

skip_whitespace(p) == IF p.st # "ok" THEN p ELSE [p EXCEPT !.pos = SkipFrom(p.input, p.pos)]

\* &self.input[self.pos..]
remaining(p) == SubSeq(p.input, p.pos + 1, Len(p.input))

starts_with(cs, word) == Len(word) <= Len(cs) /\ SubSeq(cs, 1, Len(word)) = word

\* the end of the run of alphabetic characters at pos
WordEnd(input, pos) ==
    Least({j \in pos..Len(input) : j = Len(input) \/ ~is_alphabetic(input[j + 1])})

peek_word(p) ==
    SubSeq(p.input, SkipFrom(p.input, p.pos) + 1, WordEnd(p.input, SkipFrom(p.input, p.pos)))

\* the characters of the word that the input does not hold at the position
Mismatches(p, word) ==
    {i \in 1..Len(word) : p.pos + i > Len(p.input) \/ p.input[p.pos + i] # word[i]}

\* panic! on the first mismatch, the character already taken by advance()
Mismatch(p, i) ==
    Panic([p EXCEPT !.pos = @ + i],
          IF p.pos + i > Len(p.input) THEN "Expected, found end of input" ELSE "Expected, found")

\* for expected_char in word_upper.chars() { match self.advance() { ... } }
ConsumeChars(p, word) ==
    IF Mismatches(p, word) = {} THEN [p EXCEPT !.pos = @ + Len(word)]
    ELSE Mismatch(p, Least(Mismatches(p, word)))

consume_word(p, word) ==
    IF p.st # "ok" THEN p ELSE ConsumeChars(skip_whitespace(p), to_uppercase(word))

\* expect() once the whitespace is skipped
ExpectAt(p, expected) ==
    IF peek(p) = NoChar THEN ParseErr([p EXCEPT !.pos = @ + 1], "Expected, found end of input")
    ELSE IF peek(p) = expected THEN [p EXCEPT !.pos = @ + 1]
    ELSE ParseErr([p EXCEPT !.pos = @ + 1], "Expected, found")

expect(p, expected) == IF p.st # "ok" THEN p ELSE ExpectAt(skip_whitespace(p), expected)

\* the end of the run of identifier characters at pos
IdentifierEnd(input, pos) ==
    Least({j \in pos..Len(input) : j = Len(input) \/ ~is_identifier_char(input[j + 1])})

\* parse_identifier() once the whitespace is skipped
IdentifierAt(p) ==
    IF peek(p) = NoChar THEN ParseErr(p, "Unexpected end of input")
    ELSE IF ~is_alphabetic(peek(p)) THEN ParseErr(p, "Expected identifier, found")
    ELSE [Push(p, SubSeq(p.input, p.pos + 1, IdentifierEnd(p.input, p.pos)))
            EXCEPT !.pos = IdentifierEnd(p.input, p.pos)]

parse_identifier(p) == IF p.st # "ok" THEN p ELSE IdentifierAt(skip_whitespace(p))

\* the end of the run of digits and points at pos
NumberEnd(input, pos) ==
    Least({j \in pos..Len(input) :
              j = Len(input) \/ ~(is_ascii_digit(input[j + 1]) \/ input[j + 1] = ".")})

\* str::parse::<f64>() of a run of digits and points. The inputs hold no
\* point, so the run is empty, which fails, or a decimal integer.
ParseF64(p, cs) ==
    IF cs # <<>> /\ \A i \in 1..Len(cs) : is_ascii_digit(cs[i]) THEN Push(p, DigitsValue(cs))
    ELSE ParseErr(p, "Invalid number")

\* parse_number() once the whitespace is skipped
NumberAt(p) ==
    ParseF64([p EXCEPT !.pos = NumberEnd(p.input, p.pos)],
             SubSeq(p.input, p.pos + 1, NumberEnd(p.input, p.pos)))

parse_number(p) == IF p.st # "ok" THEN p ELSE NumberAt(skip_whitespace(p))

\* the position of the next double quote at or after pos, or the end
QuoteFrom(input, pos) ==
    Least({j \in pos..Len(input) : j = Len(input) \/ input[j + 1] = "\""})

\* parse_string_literal() after the opening quote
StringBody(p) ==
    IF p.st # "ok" THEN p
    ELSE expect([Push(p, SubSeq(p.input, p.pos + 1, QuoteFrom(p.input, p.pos)))
                   EXCEPT !.pos = QuoteFrom(p.input, p.pos)], "\"")

parse_string_literal(p) == IF p.st # "ok" THEN p ELSE StringBody(expect(p, "\""))

\* ---- expressions
\* the value on top replaced by what it is made into
ReplaceTop(p, v) == Push(Pop(p), v)

\* Expr::BinaryOp of the two expressions on top
Binary(p, op) ==
    IF p.st # "ok" THEN p
    ELSE Push(PopN(p, 2), EBinaryOp(TopN(p, 2)[1], op, TopN(p, 2)[2]))

\* Expr::UnaryOp of the expression on top
Unary(p, op) == IF p.st # "ok" THEN p ELSE ReplaceTop(p, EUnaryOp(op, Top(p)))

\* Expr::String and Expr::Number of the literal on top
AsString(p) == IF p.st # "ok" THEN p ELSE ReplaceTop(p, EString(Top(p)))
AsNumber(p) == IF p.st # "ok" THEN p ELSE ReplaceTop(p, ENumber(Top(p)))

\* list.push(expr): the expression on top is added to the list under it
Collect(p) ==
    IF p.st # "ok" THEN p ELSE Push(PopN(p, 2), Append(TopN(p, 2)[1], TopN(p, 2)[2]))

is_function(name) ==
    name \in { <<"I", "N", "T">>, <<"R", "N", "D">>, <<"C", "H", "R", "$">>, <<"A", "S", "C">>,
               <<"V", "A", "L">>, <<"S", "T", "R", "$">>, <<"M", "I", "D", "$">>,
               <<"L", "E", "N">>, <<"L", "E", "F", "T", "$">>, <<"R", "I", "G", "H", "T", "$">> }

\* the name and the argument list on top made into a call or an array access
CallOrArray(p) ==
    IF p.st # "ok" THEN p
    ELSE IF is_function(TopN(p, 2)[1])
         THEN Push(PopN(p, 2), EFunctionCall(TopN(p, 2)[1], TopN(p, 2)[2]))
    ELSE Push(PopN(p, 2), EArrayAccess(TopN(p, 2)[1], TopN(p, 2)[2]))

RECURSIVE parse_expression(_)
RECURSIVE ExprList(_)
RECURSIVE ExprListMore(_)
RECURSIVE parse_unary(_)
RECURSIVE parse_power(_)

\* loop { list.push(self.parse_expression()?); self.skip_whitespace();
\*        if self.peek() == Some(',') { self.advance(); } else { break; } }
ExprList(p) == ExprListMore(parse_expression(p))

ExprListMore(p) ==
    IF p.st # "ok" THEN p
    ELSE IF peek(skip_whitespace(Collect(p))) = ","
         THEN ExprList(advance(skip_whitespace(Collect(p))))
    ELSE skip_whitespace(Collect(p))

\* the arguments after the opening parenthesis, which may be none
Arguments(p) == IF peek(p) # ")" THEN ExprList(Push(p, <<>>)) ELSE Push(p, <<>>)

\* parse_primary() after the identifier and the whitespace that follows it
PrimaryName(p) ==
    IF p.st # "ok" THEN p
    ELSE IF peek(skip_whitespace(p)) = "("
         THEN CallOrArray(expect(Arguments(advance(skip_whitespace(p))), ")"))
    ELSE ReplaceTop(skip_whitespace(p), EVariable(Top(p)))

\* parse_primary() once the whitespace is skipped
PrimaryAt(p) ==
    IF peek(p) = "(" THEN expect(parse_expression(advance(p)), ")")
    ELSE IF peek(p) = "\"" THEN AsString(parse_string_literal(p))
    ELSE IF is_ascii_digit(peek(p)) \/ peek(p) = "." THEN AsNumber(parse_number(p))
    ELSE PrimaryName(parse_identifier(p))

parse_primary(p) == IF p.st # "ok" THEN p ELSE PrimaryAt(skip_whitespace(p))

\* parse_unary() once the whitespace is skipped
UnaryAt(p) ==
    IF peek(p) = "-" THEN Unary(parse_unary(advance(p)), "Neg")
    ELSE IF peek_word(p) = <<"N", "O", "T">>
         THEN Unary(parse_unary(consume_word(p, <<"N", "O", "T">>)), "Not")
    ELSE parse_primary(p)

parse_unary(p) == IF p.st # "ok" THEN p ELSE UnaryAt(skip_whitespace(p))

\* parse_power() after the left operand: the whitespace is skipped
PowerTail(p) ==
    IF p.st # "ok" THEN p
    ELSE IF peek(skip_whitespace(p)) = "^"
         THEN Binary(parse_power(advance(skip_whitespace(p))), "Pow")
    ELSE skip_whitespace(p)

parse_power(p) == PowerTail(parse_unary(p))

RECURSIVE MulLoop(_)
\* the operator at the position, or none
MulOp(p) == CASE peek(p) = "*" -> "Mul" [] peek(p) = "/" -> "Div" [] OTHER -> ""

\* one turn of the loop of parse_multiplication(), the whitespace skipped
MulAt(p) ==
    IF MulOp(p) = "" THEN p ELSE MulLoop(Binary(parse_power(advance(p)), MulOp(p)))

MulLoop(p) == IF p.st # "ok" THEN p ELSE MulAt(skip_whitespace(p))

parse_multiplication(p) == MulLoop(parse_power(p))

RECURSIVE AddLoop(_)
AddOp(p) == CASE peek(p) = "+" -> "Add" [] peek(p) = "-" -> "Sub" [] OTHER -> ""

\* one turn of the loop of parse_addition(), the whitespace skipped
AddAt(p) ==
    IF AddOp(p) = "" THEN p ELSE AddLoop(Binary(parse_multiplication(advance(p)), AddOp(p)))

AddLoop(p) == IF p.st # "ok" THEN p ELSE AddAt(skip_whitespace(p))

parse_addition(p) == AddLoop(parse_multiplication(p))

\* match_comparison_op(): the operator at the position, or none
ComparisonOp(p) ==
    CASE peek(p) = "<" /\ peek(advance(p)) = ">" -> "Ne"
      [] peek(p) = "<" /\ peek(advance(p)) = "=" -> "Le"
      [] peek(p) = "<" /\ peek(advance(p)) \notin {">", "="} -> "Lt"
      [] peek(p) = ">" /\ peek(advance(p)) = "=" -> "Ge"
      [] peek(p) = ">" /\ peek(advance(p)) # "=" -> "Gt"
      [] peek(p) = "=" -> "Eq"
      [] OTHER -> ""

\* the parser after the operator
AfterComparisonOp(p) ==
    IF ComparisonOp(p) \in {"Ne", "Le", "Ge"} THEN advance(advance(p)) ELSE advance(p)

\* parse_comparison() after the left operand and the whitespace that follows it
ComparisonAt(p) ==
    IF ComparisonOp(p) = "" THEN p
    ELSE Binary(parse_addition(AfterComparisonOp(p)), ComparisonOp(p))

ComparisonTail(p) == IF p.st # "ok" THEN p ELSE ComparisonAt(skip_whitespace(p))

parse_comparison(p) == ComparisonTail(parse_addition(p))

\* while self.peek_word() == "AND" { ... }
RECURSIVE AndLoop(_)
AndLoop(p) ==
    IF p.st # "ok" THEN p
    ELSE IF peek_word(p) # <<"A", "N", "D">> THEN p
    ELSE AndLoop(Binary(parse_comparison(consume_word(p, <<"A", "N", "D">>)), "And"))

parse_and(p) == AndLoop(parse_comparison(p))

\* while self.peek_word() == "OR" { ... }
RECURSIVE OrLoop(_)
OrLoop(p) ==
    IF p.st # "ok" THEN p
    ELSE IF peek_word(p) # <<"O", "R">> THEN p
    ELSE OrLoop(Binary(parse_and(consume_word(p, <<"O", "R">>)), "Or"))

parse_or(p) == OrLoop(parse_and(p))

parse_expression(p) == parse_or(p)

\* ---- statements
kwRETURN == <<"R", "E", "T", "U", "R", "N">>
kwPRINT == <<"P", "R", "I", "N", "T">>
kwINPUT == <<"I", "N", "P", "U", "T">>
kwGOSUB == <<"G", "O", "S", "U", "B">>
kwGOTO == <<"G", "O", "T", "O">>
kwFOR == <<"F", "O", "R">>
kwNEXT == <<"N", "E", "X", "T">>
kwDATA == <<"D", "A", "T", "A">>
kwREAD == <<"R", "E", "A", "D">>
kwPOKE == <<"P", "O", "K", "E">>
kwDIM == <<"D", "I", "M">>
kwEND == <<"E", "N", "D">>
kwREM == <<"R", "E", "M">>
kwIF == <<"I", "F">>
kwTHEN == <<"T", "H", "E", "N">>
kwTO == <<"T", "O">>
kwSTEP == <<"S", "T", "E", "P">>
kwTAB == <<"T", "A", "B">>
kwLET == <<"L", "E", "T">>

\* let is_keyword_boundary = |c: char| !c.is_ascii_alphabetic() && c != '_'
is_keyword_boundary(c) == ~is_ascii_alphabetic(c) /\ c # "_"

\* remaining.starts_with(word) && remaining.chars().nth(len).map_or(true, is_keyword_boundary)
KeywordHere(p, word) ==
    /\ starts_with(remaining(p), word)
    /\ \/ p.pos + Len(word) >= Len(p.input)
       \/ is_keyword_boundary(p.input[p.pos + Len(word) + 1])

\* the values on top made into the statement
MakeInput(p) == IF p.st # "ok" THEN p ELSE Push(PopN(p, 2), SInput(TopN(p, 2)[1], TopN(p, 2)[2]))
MakeGoto(p) == IF p.st # "ok" THEN p ELSE ReplaceTop(p, SGoto(Top(p)))
MakeGosub(p) == IF p.st # "ok" THEN p ELSE ReplaceTop(p, SGosub(Top(p)))
MakeNext(p) == IF p.st # "ok" THEN p ELSE ReplaceTop(p, SNext(Top(p)))
MakeDim(p) == IF p.st # "ok" THEN p ELSE ReplaceTop(p, SDim(Top(p)))
MakeData(p) == IF p.st # "ok" THEN p ELSE ReplaceTop(p, SData(Top(p)))
MakeRead(p) == IF p.st # "ok" THEN p ELSE ReplaceTop(p, SRead(Top(p)))
MakePoke(p) == IF p.st # "ok" THEN p ELSE Push(PopN(p, 2), SPoke(TopN(p, 2)[1], TopN(p, 2)[2]))
MakeIfLine(p) == IF p.st # "ok" THEN p ELSE Push(PopN(p, 2), SIfLine(TopN(p, 2)[1], TopN(p, 2)[2]))
MakeIf(p) == IF p.st # "ok" THEN p ELSE Push(PopN(p, 2), SIf(TopN(p, 2)[1], TopN(p, 2)[2]))
MakeFor(p) ==
    IF p.st # "ok" THEN p
    ELSE Push(PopN(p, 5), SFor(TopN(p, 5)[1], TopN(p, 5)[2], TopN(p, 5)[3], TopN(p, 5)[4],
                               TopN(p, 5)[5]))
MakeLet(p) ==
    IF p.st # "ok" THEN p
    ELSE IF TopN(p, 4)[2]
         THEN Push(PopN(p, 4), SLetIdx(TopN(p, 4)[1], TopN(p, 4)[3], TopN(p, 4)[4]))
    ELSE Push(PopN(p, 4), SLet(TopN(p, 4)[1], TopN(p, 4)[4]))

\* ---- PRINT
\* items.push(item); trailing_semicolon = false, on the statement being built
AddItem(p, item) ==
    IF p.st # "ok" THEN p
    ELSE ReplaceTop(p, [Top(p) EXCEPT !.items = Append(@, item), !.trailing_semicolon = FALSE])

\* the same for the expression on top of the statement being built
AddExpr(p) == IF p.st # "ok" THEN p ELSE AddItem(Pop(p), PExpr(Top(p)))
AddTab(p) == IF p.st # "ok" THEN p ELSE AddItem(Pop(p), PTab(Top(p)))

\* trailing_semicolon = true
SetSemicolon(p) ==
    IF p.st # "ok" THEN p ELSE ReplaceTop(p, [Top(p) EXCEPT !.trailing_semicolon = TRUE])

RECURSIVE PrintLoop(_)
\* one turn of the loop of parse_print(), the whitespace skipped
PrintAt(p) ==
    IF is_at_end(p) \/ peek(p) = ":" THEN p
    ELSE IF peek(p) = ";" THEN PrintLoop(SetSemicolon(advance(p)))
    ELSE IF peek(p) = "," THEN PrintLoop(AddItem(advance(p), PComma))
    ELSE IF peek_word(p) = kwTAB
         THEN PrintLoop(AddTab(expect(parse_expression(
                  expect(skip_whitespace(consume_word(p, kwTAB)), "(")), ")")))
    ELSE PrintLoop(AddExpr(parse_expression(p)))

PrintLoop(p) == IF p.st # "ok" THEN p ELSE PrintAt(skip_whitespace(p))

parse_print(p) == PrintLoop(Push(consume_word(p, kwPRINT), SPrint(<<>>, FALSE)))

\* ---- INPUT
\* after the prompt: an optional semicolon
InputSemicolon(p) ==
    IF p.st # "ok" THEN p ELSE IF peek(p) = ";" THEN skip_whitespace(advance(p)) ELSE p

\* the optional prompt string
InputPrompt(p) ==
    IF p.st # "ok" THEN p
    ELSE IF peek(p) = "\"" THEN InputSemicolon(skip_whitespace(parse_string_literal(p)))
    ELSE Push(p, NoName)

parse_input(p) ==
    MakeInput(parse_identifier(InputPrompt(skip_whitespace(consume_word(p, kwINPUT)))))

\* ---- GOTO, GOSUB
parse_goto(p) == MakeGoto(parse_number(consume_word(p, kwGOTO)))

parse_gosub(p) == MakeGosub(parse_number(consume_word(p, kwGOSUB)))

\* ---- FOR
\* the optional STEP
ForStep(p) ==
    IF p.st # "ok" THEN p
    ELSE IF peek_word(p) = kwSTEP THEN parse_expression(consume_word(Push(p, TRUE), kwSTEP))
    ELSE Push(Push(p, FALSE), ENumber(0))

parse_for(p) ==
    MakeFor(ForStep(skip_whitespace(parse_expression(consume_word(skip_whitespace(
        parse_expression(expect(skip_whitespace(parse_identifier(consume_word(p, kwFOR))),
                                "="))), kwTO)))))

\* ---- NEXT
NextVariable(p) ==
    IF p.st # "ok" THEN p
    ELSE IF is_at_end(p) \/ peek(p) = ":" THEN Push(p, NoName)
    ELSE parse_identifier(p)

parse_next(p) == MakeNext(NextVariable(skip_whitespace(consume_word(p, kwNEXT))))

\* ---- DIM
\* declarations.push(DimDeclaration { name, dimensions })
CollectDecl(p) ==
    IF p.st # "ok" THEN p
    ELSE Push(PopN(p, 3), Append(TopN(p, 3)[1], DimDecl(TopN(p, 3)[2], TopN(p, 3)[3])))

RECURSIVE DimLoop(_)
DimMore(p) ==
    IF p.st # "ok" THEN p ELSE IF peek(p) = "," THEN DimLoop(advance(p)) ELSE p

DimLoop(p) ==
    DimMore(skip_whitespace(CollectDecl(expect(ExprList(Push(
        expect(parse_identifier(skip_whitespace(p)), "("), <<>>)), ")"))))

parse_dim(p) == MakeDim(DimLoop(Push(consume_word(p, kwDIM), <<>>)))

\* ---- DATA
\* the end of the value at pos: a comma, a colon or the end of the line
DataEnd(input, pos) ==
    Least({j \in pos..Len(input) : j = Len(input) \/ input[j + 1] \in {",", ":"}})

\* str::trim
TrimStart(cs) ==
    SubSeq(cs, Least({j \in 1..Len(cs) + 1 : j = Len(cs) + 1 \/ ~is_whitespace(cs[j])}), Len(cs))

TrimEnd(cs) ==
    SubSeq(cs, 1, Len(cs) - Least({j \in 0..Len(cs) :
                                      j = Len(cs) \/ ~is_whitespace(cs[Len(cs) - j])}))

Trim(cs) == TrimEnd(TrimStart(cs))

\* values.push(value.trim().to_string()) for the value at the position
DataValue(p) ==
    IF p.st # "ok" THEN p
    ELSE [ReplaceTop(p, Append(Top(p), Trim(SubSeq(p.input, p.pos + 1, DataEnd(p.input, p.pos)))))
            EXCEPT !.pos = DataEnd(p.input, p.pos)]

RECURSIVE DataLoop(_)
DataMore(p) ==
    IF p.st # "ok" THEN p ELSE IF peek(p) = "," THEN DataLoop(advance(p)) ELSE p

DataLoop(p) == DataMore(skip_whitespace(DataValue(skip_whitespace(p))))

parse_data(p) == MakeData(DataLoop(Push(consume_word(p, kwDATA), <<>>)))

\* ---- READ
RECURSIVE ReadLoop(_)
ReadMore(p) ==
    IF p.st # "ok" THEN p ELSE IF peek(p) = "," THEN ReadLoop(advance(p)) ELSE p

ReadLoop(p) == ReadMore(skip_whitespace(Collect(parse_identifier(skip_whitespace(p)))))

parse_read(p) == MakeRead(ReadLoop(Push(consume_word(p, kwREAD), <<>>)))

\* ---- POKE
parse_poke(p) ==
    MakePoke(parse_expression(expect(skip_whitespace(parse_expression(consume_word(p, kwPOKE))),
                                     ",")))

\* ---- REM: the rest of the line is the comment
RemRest(p) == IF p.st # "ok" THEN p ELSE Push([p EXCEPT !.pos = Len(p.input)], SRem)

parse_rem(p) == RemRest(consume_word(p, kwREM))

\* ---- LET
LetWord(p) == IF peek_word(p) = kwLET THEN consume_word(p, kwLET) ELSE p

\* the optional indices of an array element
LetIndex(p) ==
    IF p.st # "ok" THEN p
    ELSE IF peek(p) = "(" THEN expect(ExprList(Push(Push(advance(p), TRUE), <<>>)), ")")
    ELSE Push(Push(p, FALSE), <<>>)

parse_let(p) ==
    MakeLet(parse_expression(expect(skip_whitespace(LetIndex(skip_whitespace(
        parse_identifier(LetWord(p))))), "=")))

\* ---- IF and the dispatch
RECURSIVE parse_statement(_)
RECURSIVE BranchLoop(_)

\* THEN is optional
IfThen(p) ==
    IF p.st # "ok" THEN p
    ELSE IF starts_with(remaining(p), kwTHEN) THEN skip_whitespace(consume_word(p, kwTHEN))
    ELSE p

\* statements.push(stmt); self.skip_whitespace()
Pushed(p) == skip_whitespace(Collect(p))

\* after a statement of the branch: a colon goes on with the next one
BranchMore(p) ==
    IF p.st # "ok" THEN p
    ELSE IF peek(Pushed(p)) = ":" THEN BranchLoop(advance(Pushed(p)))
    ELSE Pushed(p)

\* loop { if self.is_at_end() || self.peek() == Some(':') { break; } ... }
BranchLoop(p) ==
    IF p.st # "ok" THEN p
    ELSE IF is_at_end(p) \/ peek(p) = ":" THEN p
    ELSE BranchMore(parse_statement(p))

\* a line number, or the statements of the branch
IfBody(p) ==
    IF p.st # "ok" THEN p
    ELSE IF is_ascii_digit(peek(p)) THEN MakeIfLine(parse_number(p))
    ELSE MakeIf(BranchLoop(Push(p, <<>>)))

parse_if(p) == IfBody(IfThen(skip_whitespace(parse_expression(consume_word(p, kwIF)))))

\* parse_statement() once the whitespace is skipped
\* A keyword is followed by a boundary, so no two of the tests hold at once.
StatementAt(p) ==
    CASE KeywordHere(p, kwRETURN) -> Push(consume_word(p, kwRETURN), SReturn)
      [] KeywordHere(p, kwPRINT) -> parse_print(p)
      [] KeywordHere(p, kwINPUT) -> parse_input(p)
      [] KeywordHere(p, kwGOSUB) -> parse_gosub(p)
      [] KeywordHere(p, kwGOTO) -> parse_goto(p)
      [] KeywordHere(p, kwFOR) -> parse_for(p)
      [] KeywordHere(p, kwNEXT) -> parse_next(p)
      [] KeywordHere(p, kwDATA) -> parse_data(p)
      [] KeywordHere(p, kwREAD) -> parse_read(p)
      [] KeywordHere(p, kwPOKE) -> parse_poke(p)
      [] KeywordHere(p, kwDIM) -> parse_dim(p)
      [] KeywordHere(p, kwEND) -> Push(consume_word(p, kwEND), SEnd)
      [] KeywordHere(p, kwREM) -> parse_rem(p)
      [] KeywordHere(p, kwIF) -> parse_if(p)
      [] OTHER -> parse_let(p)

parse_statement(p) == IF p.st # "ok" THEN p ELSE StatementAt(skip_whitespace(p))

\* ---- lines and programs
RECURSIVE LineLoop(_)

\* after a statement: a colon goes on with the next one
LineMore(p) ==
    IF p.st # "ok" THEN p
    ELSE IF peek(Pushed(p)) = ":" THEN LineLoop(advance(Pushed(p)))
    ELSE Pushed(p)

\* one turn of the loop of parse_line(), the whitespace skipped
LineAt(p) ==
    IF p.st # "ok" THEN p
    ELSE IF is_at_end(p) THEN p
    ELSE IF peek(p) = ":" THEN LineLoop(advance(p))
    ELSE LineMore(parse_statement(p))

LineLoop(p) == LineAt(skip_whitespace(p))

\* leaves the line number and the statements in vals
parse_line(p) == LineLoop(Push(skip_whitespace(parse_number(skip_whitespace(p))), <<>>))

\* what parsing returned: Ok with the value, Err with the message, or no
\* return at all because the process was aborted
Parsed(p, v) == [st |-> p.st, v |-> IF Failed(p) THEN <<>> ELSE v, err |-> p.err]

\* the text of a line parsed on its own
ParseLineOf(text) == parse_line(NewParser(text))

\* str::lines: the texts between the newlines
LineStarts(cs) == {s \in 1..Len(cs) : s = 1 \/ cs[s - 1] = "\n"}

\* the line that starts at s, without its newline
LineFrom(cs, s) ==
    SubSeq(cs, s, Least({j \in s..Len(cs) + 1 : j = Len(cs) + 1 \/ cs[j] = "\n"}) - 1)

SplitLines(cs) ==
    [n \in 1..Cardinality(LineStarts(cs)) |->
        LineFrom(cs, CHOOSE s \in LineStarts(cs) :
                         Cardinality({t \in LineStarts(cs) : t < s}) = n - 1)]

RECURSIVE ProgramLoop(_, _, _)
\* the line parsed to p: `?` returns its error, else it is inserted
ProgramLine(texts, i, program, p) ==
    IF Failed(p) THEN Parsed(p, <<>>)
    ELSE ProgramLoop(texts, i + 1, Put(program, p.vals[1], p.vals[2]))

\* for line in source.lines() { ... }
ProgramLoop(texts, i, program) ==
    IF i > Len(texts) THEN [st |-> "ok", v |-> program, err |-> NoErr]
    ELSE IF Trim(texts[i]) = <<>> THEN ProgramLoop(texts, i + 1, program)
    ELSE ProgramLine(texts, i, program, ParseLineOf(Trim(texts[i])))

\* Parser::parse_program on the text of a program
parse_program_source(source) == ProgramLoop(SplitLines(source), 1, EmptyMap)

\* Interpreter::load_program on the text of a program: the program is
\* replaced and the DATA collected when the parse returns Ok, nothing is
\* touched when it returns Err (`?`), and the process is gone when it panics
load_program_source(source) ==
    \E r \in {parse_program_source(source)} :
    /\ h_op = "new"
    /\ h_output' = r
    /\ h_op' = CASE r.st = "ok" -> "load" [] r.st = "err" -> "load failed" [] OTHER -> "aborted"
    /\ h_result' = r.err
    /\ lines' = IF r.st = "ok" THEN r.v ELSE lines
    /\ data_values' = IF r.st = "ok" THEN data_values \o CollectData(r.v) ELSE data_values
    /\ current_line' = IF r.st = "ok" /\ Keys(r.v) # <<>> THEN Keys(r.v)[1] ELSE current_line
    /\ h_loads' = h_loads + 1
    /\ UNCHANGED <<variables, arrays, array_dimensions, gosub_stack, for_stack, data_pointer,
                   statement_idx, input_buffer, waiting_for_input, input_variable, ended, sink,
                   h_log, h_expect, h_pending, h_ret_ok, h_input_path, h_committed, h_resumed,
                   h_errored, h_exec_after_error, h_typed, h_fed, h_source, game>>

\* 10 IFXZ>8ANDXZ<=2THENKJ=2
GluedIfLine ==
    <<"1", "0", " ", "I", "F", "X", "Z", ">", "8", "A", "N", "D", "X", "Z", "<", "=", "2",
      "T", "H", "E", "N", "K", "J", "=", "2">>

\* 10 FOR PZ=HZTOHZ+15
GluedForLine ==
    <<"1", "0", " ", "F", "O", "R", " ", "P", "Z", "=", "H", "Z", "T", "O", "H", "Z", "+",
      "1", "5">>

\* 10 FOR I=ATOTOP
GluedForTwiceLine ==
    <<"1", "0", " ", "F", "O", "R", " ", "I", "=", "A", "T", "O", "T", "O", "P">>

\* 10 for i=a to 3 step-1:print "A";tab(2)a$(i,1),:next
ForPrintLine ==
    <<"1", "0", " ", "f", "o", "r", " ", "i", "=", "a", " ", "t", "o", " ", "3",
      " ", "s", "t", "e", "p", "-", "1", ":", "p", "r", "i", "n", "t", " ", "\"", "A", "\"",
      ";", "t", "a", "b", "(", "2", ")", "a", "$", "(", "i", ",", "1", ")", ",", ":", "n", "e",
      "x", "t">>

\* 20 DIM A(2),B$(1,2):A(1)=LEN(B$(0,0))*2^3/4:INPUT "N";N$:INPUT X
\* 30 IF NOT A OR B<>1 THEN 50
\* 40 DATA 1, X Y ,3:READ A,B$:POKE 53280,A:GOSUB 60:GOTO 30:REM X
\* 60 RETURN:END
ManyStatements ==
    <<"2", "0", " ", "D", "I", "M", " ", "A", "(", "2", ")", ",", "B", "$", "(", "1", ",", "2",
      ")", ":", "A", "(", "1", ")", "=", "L", "E", "N", "(", "B", "$", "(", "0", ",", "0", ")",
      ")", "*", "2", "^", "3", "/", "4", ":", "I", "N", "P", "U", "T", " ", "\"", "N", "\"",
      ";", "N", "$", ":", "I", "N", "P", "U", "T", " ", "X", "\n",
      "3", "0", " ", "I", "F", " ", "N", "O", "T", " ", "A", " ", "O", "R", " ", "B", "<", ">",
      "1", " ", "T", "H", "E", "N", " ", "5", "0", "\n",
      "4", "0", " ", "D", "A", "T", "A", " ", "1", ",", " ", "X", " ", "Y", " ", ",", "3", ":",
      "R", "E", "A", "D", " ", "A", ",", "B", "$", ":", "P", "O", "K", "E", " ", "5", "3", "2",
      "8", "0", ",", "A", ":", "G", "O", "S", "U", "B", " ", "6", "0", ":", "G", "O", "T", "O",
      " ", "3", "0", ":", "R", "E", "M", " ", "X", "\n",
      "6", "0", " ", "R", "E", "T", "U", "R", "N", ":", "E", "N", "D">>

\* the pieces of the generated lines: a FOR header, IF and THEN, a colon and
\* the start of a second line
SourcePieces == { <<"F", "O", "R">>, <<"I">>, <<"=">>, <<"1">>, <<"T", "O">>, <<"I", "F">>,
                  <<"T", "H", "E", "N">>, <<":">>, <<"\n", "2", "0", " ">> }

\* line 10 followed by up to MaxTokens pieces
GeneratedSources == { <<"1", "0", " ">> \o text : text \in TextsOf(SourcePieces, MaxTokens) }

InitParser ==
    /\ NewInterpreter
    /\ h_source \in GeneratedSources
                     \cup {GluedIfLine, GluedForLine, GluedForTwiceLine, ForPrintLine, ManyStatements}
    /\ h_output = <<>>

LoadSource == load_program_source(h_source)

SpecParser == InitParser /\ [][LoadSource]_vars

\* C12: a parse failure, a keyword that cannot be consumed included, is
\* returned by load_program as an error value and leaves no partial
\* program; parsing never aborts the process.
C12_ParseFailureIsError ==
    /\ h_op # "aborted"
    /\ h_op = "load failed" => (h_output.st = "err" /\ h_output.v = <<>> /\ lines = EmptyMap)

vXZ == <<"X", "Z">>
vKJ == <<"K", "J">>
vPZ == <<"P", "Z">>
vHZ == <<"H", "Z">>

\* C15: 10 IFXZ>8ANDXZ<=2THENKJ=2 parses to the one statement
\* If{condition (XZ>8) AND (XZ<=2), no then_line, branch [Let KJ=2]}.
C15_GluedIf ==
    (h_op # "new" /\ h_source = GluedIfLine) =>
        /\ h_op = "load"
        /\ DOMAIN lines = {10}
        /\ lines[10] = << SIf(EBinaryOp(EBinaryOp(EVariable(vXZ), "Gt", ENumber(8)), "And",
                                        EBinaryOp(EVariable(vXZ), "Le", ENumber(2))),
                              <<SLet(vKJ, ENumber(2))>>) >>

C15_Witness ==
    /\ h_op = "load"
    /\ h_source = GluedIfLine
    /\ lines[10][1].k = "If"
    /\ lines[10][1].condition.op = "And"

\* C16: 10 FOR PZ=HZTOHZ+15 parses to For{PZ, start HZ, end HZ+15, no step}:
\* after the '=' of a FOR header the first TO is the keyword although it is
\* glued on both sides, and only that TO is spaced, as 10 FOR I=ATOTOP
\* shows, whose end is the variable TOP.
C16_GluedTo ==
    /\ (h_op # "new" /\ h_source = GluedForLine) =>
        /\ h_op = "load"
        /\ DOMAIN lines = {10}
        /\ lines[10] = << SFor(vPZ, EVariable(vHZ),
                               EBinaryOp(EVariable(vHZ), "Add", ENumber(15)), FALSE,
                               ENumber(0)) >>
    /\ (h_op # "new" /\ h_source = GluedForTwiceLine) =>
        /\ h_op = "load"
        /\ lines[10] = << SFor(vI, EVariable(vA), EVariable(<<"T", "O", "P">>), FALSE,
                               ENumber(0)) >>

C16_Witness ==
    /\ h_op = "load"
    /\ h_source = GluedForLine
    /\ lines[10][1].k = "For"
    /\ lines[10][1].start = EVariable(vHZ)

\* ---------------------------------------------------------------------
\* Running one-line programs that print a comparison
\* (examples/test_c64_fidelity.rs, comparison_operators)

ComparisonTexts == {<<">">>, <<"<">>, <<"=">>, <<"<", ">">>, <<"<", "=">>, <<">", "=">>}

\* 10 PRINT a op b
PrintComparison(a, op, b) ==
    <<"1", "0", " ", "P", "R", "I", "N", "T", " ">> \o FormatI64(a) \o op \o FormatI64(b)

ComparisonPrograms ==
    {PrintComparison(a, op, b) : a \in 0..MaxNumber, op \in ComparisonTexts, b \in 0..MaxNumber}

InitRun ==
    /\ NewInterpreter
    /\ h_source \in ComparisonPrograms
    /\ h_output = <<>>

NextRun == LoadSource \/ Step

\* run_program of the fidelity test: load_program, then step() until it
\* returns false
SpecRun == InitRun /\ [][NextRun]_vars

\* the text the calls of a sink add up to
RECURSIVE SinkText(_)
SinkText(calls) ==
    IF calls = <<>> THEN <<>>
    ELSE CASE calls[1].call = "print" -> calls[1].text \o SinkText(Tail(calls))
           [] calls[1].call = "println" -> calls[1].text \o <<"\n">> \o SinkText(Tail(calls))
           [] OTHER -> SinkText(Tail(calls))

\* 10 PRINT 5>3 and 10 PRINT 5<3
PrintTrue == PrintComparison(5, <<">">>, 3)
PrintFalse == PrintComparison(5, <<"<">>, 3)

\* the step() that executed the PRINT
PrintStep == h_op = "step" /\ h_log # <<>>

\* the truth of a op b
Holds(a, op, b) ==
    CASE op = <<">">> -> a > b
      [] op = <<"<">> -> a < b
      [] op = <<"=">> -> a = b
      [] op = <<"<", ">">> -> a # b
      [] op = <<"<", "=">> -> a <= b
      [] op = <<">", "=">> -> a >= b

\* what the source under study prints, without the newline
Rendered(source) ==
    IF Holds(DigitVal(source[10]), SubSeq(source, 11, Len(source) - 1),
             DigitVal(source[Len(source)]))
    THEN <<"-", "1">> ELSE <<" ", "0">>

\* C17 as stated: running 10 PRINT 5>3 delivers exactly "-1" and a newline,
\* 10 PRINT 5<3 exactly " 0" and a newline, and nothing else is printed.
C17_ComparisonPrinted ==
    /\ (PrintStep /\ h_source = PrintTrue) => SinkText(sink) = <<"-", "1", "\n">>
    /\ (PrintStep /\ h_source = PrintFalse) => SinkText(sink) = <<" ", "0", "\n">>
    /\ (h_op = "step" /\ h_log = <<>>) => sink = <<>>

\* C17 amended: a printed comparison delivers "-1" when true and " 0" when
\* false, then the space that follows every printed number, then a newline,
\* and the steps after the PRINT deliver nothing.
C17_ComparisonPrintedWithSpace ==
    /\ PrintStep =>
          sink = <<SinkPrint(Rendered(h_source)), SinkPrint(<<" ">>), SinkPrintln(<<>>)>>
    /\ (PrintStep /\ h_source = PrintTrue) => SinkText(sink) = <<"-", "1", " ", "\n">>
    /\ (PrintStep /\ h_source = PrintFalse) => SinkText(sink) = <<" ", "0", " ", "\n">>
    /\ (h_op = "step" /\ h_log = <<>>) => sink = <<>>

C17_Witness ==
    /\ PrintStep
    /\ h_source = PrintFalse
    /\ SinkText(sink) = <<" ", "0", " ", "\n">>

\* ---------------------------------------------------------------------
\* prg_loader.rs: the detokenizer.  Bytes are numbers 0..255, the text is a
\* sequence of chars.

\* Commodore 64 BASIC V2 token table: TOKENS[i + 1] is the word of byte 128 + i
TOKENS ==
    << <<"E", "N", "D">>, <<"F", "O", "R">>, <<"N", "E", "X", "T">>,
       <<"D", "A", "T", "A">>, <<"I", "N", "P", "U", "T", "#">>,
       <<"I", "N", "P", "U", "T">>, <<"D", "I", "M">>, <<"R", "E", "A", "D">>,
       <<"L", "E", "T">>, <<"G", "O", "T", "O">>, <<"R", "U", "N">>, <<"I", "F">>,
       <<"R", "E", "S", "T", "O", "R", "E">>, <<"G", "O", "S", "U", "B">>,
       <<"R", "E", "T", "U", "R", "N">>, <<"R", "E", "M">>, <<"S", "T", "O", "P">>,
       <<"O", "N">>, <<"W", "A", "I", "T">>, <<"L", "O", "A", "D">>,
       <<"S", "A", "V", "E">>, <<"V", "E", "R", "I", "F", "Y">>, <<"D", "E", "F">>,
       <<"P", "O", "K", "E">>, <<"P", "R", "I", "N", "T", "#">>,
       <<"P", "R", "I", "N", "T">>, <<"C", "O", "N", "T">>, <<"L", "I", "S", "T">>,
       <<"C", "L", "R">>, <<"C", "M", "D">>, <<"S", "Y", "S">>, <<"O", "P", "E", "N">>,
       <<"C", "L", "O", "S", "E">>, <<"G", "E", "T">>, <<"N", "E", "W">>,
       <<"T", "A", "B", "(">>, <<"T", "O">>, <<"F", "N">>, <<"S", "P", "C", "(">>,
       <<"T", "H", "E", "N">>, <<"N", "O", "T">>, <<"S", "T", "E", "P">>, <<"+">>, <<"-">>,
       <<"*">>, <<"/">>, <<"^">>, <<"A", "N", "D">>, <<"O", "R">>, <<">">>, <<"=">>,
       <<"<">>, <<"S", "G", "N">>, <<"I", "N", "T">>, <<"A", "B", "S">>, <<"U", "S", "R">>,
       <<"F", "R", "E">>, <<"P", "O", "S">>, <<"S", "Q", "R">>, <<"R", "N", "D">>,
       <<"L", "O", "G">>, <<"E", "X", "P">>, <<"C", "O", "S">>, <<"S", "I", "N">>,
       <<"T", "A", "N">>, <<"A", "T", "N">>, <<"P", "E", "E", "K">>, <<"L", "E", "N">>,
       <<"S", "T", "R", "$">>, <<"V", "A", "L">>, <<"A", "S", "C">>,
       <<"C", "H", "R", "$">>, <<"L", "E", "F", "T", "$">>,
       <<"R", "I", "G", "H", "T", "$">>, <<"M", "I", "D", "$">>, <<"G", "O">> >>

\* the chars of the bytes 32..95, in order
PrintableAscii ==
    << " ", "!", "\"", "#", "$", "%", "&", "'", "(", ")", "*", "+", ",", "-", ".", "/",
       "0", "1", "2", "3", "4", "5", "6", "7", "8", "9", ":", ";", "<", "=", ">", "?", "@",
       "A", "B", "C", "D", "E", "F", "G", "H", "I", "J", "K", "L", "M", "N", "O", "P", "Q",
       "R", "S", "T", "U", "V", "W", "X", "Y", "Z", "[", "\\", "]", "^", "_" >>

\* byte as char for a byte of 32..95 or 97..122
AsChar(byte) == IF byte <= 95 THEN PrintableAscii[byte - 31] ELSE Lower[byte - 96]

petscii_to_ascii(petscii) ==
    IF petscii \in 32..95 \/ petscii \in 97..122 THEN AsChar(petscii) ELSE "?"

\* the byte is one of A..Z, a..z, 0..9
byte_is_alphanumeric(byte) == byte \in 65..90 \/ byte \in 97..122 \/ byte \in 48..57

SpacedTokens ==
    { <<"I", "F">>, <<"F", "O", "R">>, <<"T", "H", "E", "N">>, <<"T", "O">>,
      <<"S", "T", "E", "P">>, <<"A", "N", "D">>, <<"O", "R">>, <<"N", "O", "T">>,
      <<"G", "O", "T", "O">>, <<"G", "O", "S", "U", "B">>, <<"O", "N">>, <<"D", "I", "M">>,
      <<"R", "E", "A", "D">>, <<"I", "N", "P", "U", "T">>, <<"L", "E", "T">>,
      <<"P", "R", "I", "N", "T">>, <<"G", "E", "T">>, <<"N", "E", "X", "T">>,
      <<"D", "A", "T", "A">>, <<"R", "E", "T", "U", "R", "N">>, <<"E", "N", "D">> }

\* mutant: no keyword gets a space before it
needs_space_before_Never(token) == FALSE

needs_space_before(token) == token \in SpacedTokens

needs_space_after(token) == token \in SpacedTokens

\* Result<String, String>
Detokenized(text) == [ok |-> TRUE, text |-> text, err |-> <<>>]
\* mutant: the high byte first
line_number_BigEndian(line_lo, line_hi) == line_hi + 256 * line_lo

\* line_lo | (line_hi << 8)
line_number(line_lo, line_hi) == line_lo + 256 * line_hi

\* the token, with the space the heuristic puts before it
TokenBefore(token, last_was_alphanumeric) ==
    IF last_was_alphanumeric /\ needs_space_before(token) THEN <<" ">> \o token ELSE token

\* the space the heuristic puts after the token; pos is the index of the
\* byte after it
TokenAfter(bytes, pos, token) ==
    IF pos < Len(bytes) /\ byte_is_alphanumeric(bytes[pos + 1]) /\ needs_space_after(token)
    THEN <<" ">> ELSE <<>>

\* the variables of the loop over the bytes of a line; failed holds the Err
\* the function returns with
InLine(pos, result, in_quotes, in_rem, last_was_alphanumeric) ==
    [pos |-> pos, result |-> result, in_quotes |-> in_quotes, in_rem |-> in_rem,
     last_was_alphanumeric |-> last_was_alphanumeric, failed |-> FALSE, err |-> <<>>]

\* mutant: the index wraps around the table, no byte is unknown
DetokenizeToken_Wrapping(bytes, s, line, byte) ==
    InLine(s.pos,
           s.result \o TokenBefore(TOKENS[((byte - 128) % Len(TOKENS)) + 1], s.last_was_alphanumeric)
                    \o TokenAfter(bytes, s.pos, TOKENS[((byte - 128) % Len(TOKENS)) + 1]),
           s.in_quotes, s.in_rem, FALSE)

\* a byte >= 128 outside quotes and remarks, s.pos already past it
DetokenizeToken(bytes, s, line, byte) ==
    IF byte - 128 < Len(TOKENS)
    THEN InLine(s.pos,
                s.result \o TokenBefore(TOKENS[byte - 127], s.last_was_alphanumeric)
                         \o TokenAfter(bytes, s.pos, TOKENS[byte - 127]),
                s.in_quotes, s.in_rem \/ TOKENS[byte - 127] = <<"R", "E", "M">>, FALSE)
    ELSE [s EXCEPT !.failed = TRUE, !.err = <<"Unknown token", byte, s.pos - 1, line>>]

\* mutant: a byte >= 128 is expanded inside strings and remarks too
DetokenizeByte_Expanding(bytes, s, line, byte) ==
    IF byte = 34
    THEN InLine(s.pos, Append(s.result, "\""), ~s.in_quotes, s.in_rem, FALSE)
    ELSE IF byte >= 128
    THEN DetokenizeToken(bytes, s, line, byte)
    ELSE InLine(s.pos, Append(s.result, petscii_to_ascii(byte)), s.in_quotes, s.in_rem,
                byte_is_alphanumeric(byte))

\* one byte of the line, s.pos already past it
DetokenizeByte(bytes, s, line, byte) ==
    IF byte = 34
    THEN InLine(s.pos, Append(s.result, "\""), ~s.in_quotes, s.in_rem, FALSE)
    ELSE IF s.in_quotes \/ s.in_rem
    THEN InLine(s.pos, Append(s.result, petscii_to_ascii(byte)), s.in_quotes, s.in_rem, FALSE)
    ELSE IF byte >= 128
    THEN DetokenizeToken(bytes, s, line, byte)
    ELSE InLine(s.pos, Append(s.result, petscii_to_ascii(byte)), s.in_quotes, s.in_rem,
                byte_is_alphanumeric(byte))

\* while pos < bytes.len() && bytes[pos] != 0 ; pos is 0-based
RECURSIVE DetokenizeLine(_, _, _)
DetokenizeLine(bytes, s, line) ==
    IF ~s.failed /\ s.pos < Len(bytes) /\ bytes[s.pos + 1] # 0
    THEN DetokenizeLine(bytes,
                        DetokenizeByte(bytes, [s EXCEPT !.pos = @ + 1], line, bytes[s.pos + 1]),
                        line)
    ELSE s

\* the variables of the loop over the records; done is the break or return
OverRecords(pos, result, done, ok, err) ==
    [pos |-> pos, result |-> result, done |-> done, ok |-> ok, err |-> err]

\* after the bytes of a line: the terminator is skipped and the newline added
EndOfLine(bytes, s) ==
    IF s.failed THEN OverRecords(s.pos, s.result, TRUE, FALSE, s.err)
    ELSE OverRecords(IF s.pos < Len(bytes) THEN s.pos + 1 ELSE s.pos,
                     Append(s.result, "\n"), FALSE, TRUE, <<>>)

\* one turn of the outer loop, o.pos at the link pointer of a record
DetokenizeRecord(bytes, o) ==
    IF o.pos + 1 >= Len(bytes) THEN [o EXCEPT !.done = TRUE]
    ELSE IF bytes[o.pos + 1] = 0 /\ bytes[o.pos + 2] = 0 THEN [o EXCEPT !.done = TRUE]
    ELSE IF o.pos + 3 >= Len(bytes)
    THEN OverRecords(o.pos + 2, o.result, TRUE, FALSE,
                     <<"Unexpected end of file while reading line number">>)
    ELSE EndOfLine(bytes,
             DetokenizeLine(bytes,
                 InLine(o.pos + 4,
                        o.result \o FormatI64(line_number(bytes[o.pos + 3], bytes[o.pos + 4]))
                                 \o <<" ">>,
                        FALSE, FALSE, FALSE),
                 line_number(bytes[o.pos + 3], bytes[o.pos + 4])))

\* while pos < bytes.len()
RECURSIVE DetokenizeRecords(_, _)
DetokenizeRecords(bytes, o) ==
    IF o.done \/ o.pos >= Len(bytes) THEN o
    ELSE DetokenizeRecords(bytes, DetokenizeRecord(bytes, o))

\* Ok(result) or the Err of the loop
Returned(o) == IF o.ok THEN Detokenized(o.result) ELSE [ok |-> FALSE, text |-> <<>>, err |-> o.err]

detokenize_program(bytes) ==
    Returned(DetokenizeRecords(bytes, OverRecords(0, <<>>, FALSE, TRUE, <<>>)))

\* [2-byte link pointer][2-byte line number][bytes][0x00]
Record(link, number, content) ==
    <<link % 256, link \div 256, number % 256, number \div 256>> \o content \o <<0>>

EndMarker == <<0, 0>>

\* tests::test_detokenize_simple: 10 PRINT "HELLO"
HelloFixture ==
    <<16, 8, 10, 0, 153, 32, 34, 72, 69, 76, 76, 79, 34, 0, 0, 0>>

\* tests::test_detokenize_with_tokens: 20 FOR I=1 TO 10
ForFixture ==
    <<32, 8, 20, 0, 129, 32, 73, 178, 49, 164, 49, 48, 0, 0, 0>>

\* the bytes generated lines are made of: A, space, quote, a PETSCII
\* graphics byte, THEN, PRINT, REM, the = token, LEN, and a byte past the
\* token table
BytePieces == { <<65>>, <<32>>, <<34>>, <<96>>, <<167>>, <<153>>, <<143>>, <<178>>, <<195>>,
                <<204>> }

\* one record and the end marker, the content of up to MaxBytes bytes
OneRecordPrograms ==
    { Record(2064, 10, content) \o EndMarker : content \in TextsOf(BytePieces, MaxBytes) }

\* two records in descending line order, the end marker, and what may
\* follow it: nothing or a third record
TwoRecordPrograms ==
    { Record(2064, 300, c1) \o Record(512, 20, c2) \o EndMarker \o rest :
        c1 \in TextsOf(BytePieces, 1), c2 \in TextsOf(BytePieces, 1),
        rest \in {<<>>, Record(2064, 30, <<65>>)} }

\* inputs that end inside a record or without the end marker
TruncatedPrograms ==
    { <<>>, <<16>>, <<16, 8>>, <<16, 8, 10>>, <<16, 8, 10, 0>>, <<16, 8, 10, 0, 65>>,
      Record(2064, 10, <<65>>), Record(2064, 10, <<65>>) \o <<0>> }

\* a line 10 with the token between two A
Between(token) == Record(2064, 10, <<65, token, 65>>) \o EndMarker

\* every byte from 128 on between two alphanumeric bytes
BetweenPrograms == { Between(token) : token \in 128..255 }

InitDetokenizer ==
    /\ NewInterpreter
    /\ h_source \in OneRecordPrograms \cup TwoRecordPrograms \cup TruncatedPrograms
                    \cup BetweenPrograms \cup {HelloFixture, ForFixture}
    /\ h_output = <<>>

Detokenize == Returns("detokenize_program", detokenize_program(h_source))

SpecDetokenizer == InitDetokenizer /\ [][Detokenize]_vars

\* word occurs in text
Contains(text, word) == \E i \in 0..Len(text) : SliceIs(text, i, word)

\* index of the first 0x00 at or after index i, or 0 when there is none
ContentEnd(bytes, i) ==
    IF \E j \in i..Len(bytes) : bytes[j] = 0
    THEN Least({j \in i..Len(bytes) : bytes[j] = 0})
    ELSE 0

\* from index i on, bytes is a sequence of whole records closed by a link
\* pointer of 0x0000
RECURSIVE Framed(_, _)
Framed(bytes, i) ==
    /\ i + 1 <= Len(bytes)
    /\ \/ bytes[i] = 0 /\ bytes[i + 1] = 0
       \/ /\ i + 3 <= Len(bytes)
          /\ ContentEnd(bytes, i + 4) # 0
          /\ Framed(bytes, ContentEnd(bytes, i + 4) + 1)

\* the records of a framed byte sequence, in order
RECURSIVE RecordsOf(_, _)
RecordsOf(bytes, i) ==
    IF bytes[i] = 0 /\ bytes[i + 1] = 0 THEN <<>>
    ELSE << [number |-> bytes[i + 2] + 256 * bytes[i + 3],
             content |-> SubSeq(bytes, i + 4, ContentEnd(bytes, i + 4) - 1)] >>
         \o RecordsOf(bytes, ContentEnd(bytes, i + 4) + 1)

\* index of the k-th newline of the text, 0 for k = 0
NewlineAt(text, k) ==
    IF k = 0 THEN 0
    ELSE CHOOSE j \in 1..Len(text) :
             text[j] = "\n" /\ Cardinality({i \in 1..j : text[i] = "\n"}) = k

\* the lines of a text, each closed by a newline
TextLines(text) ==
    [k \in 1..Cardinality({i \in 1..Len(text) : text[i] = "\n"}) |->
        SubSeq(text, NewlineAt(text, k - 1) + 1, NewlineAt(text, k) - 1)]

UnknownToken(content) == \E i \in 1..Len(content) : content[i] >= 128 + Len(TOKENS)

\* line k of the output is the number of record k, a space, and what the
\* record alone detokenizes to
LineOfRecord(record, line) ==
    /\ IsPrefix(FormatI64(record.number) \o <<" ">>, line)
    /\ detokenize_program(Record(1, record.number, record.content) \o EndMarker).text
           = line \o <<"\n">>

RecordLines(records, textlines) ==
    /\ Len(textlines) = Len(records)
    /\ \A k \in 1..Len(records) : LineOfRecord(records[k], textlines[k])

char_is_alphanumeric(c) == c \in AsciiAlnum \/ \E i \in 1..Len(Lower) : Lower[i] = c

\* a keyword of the spaced set, with a space before it when the last char of
\* the text so far is alphanumeric
KeywordAfter(out, token) ==
    IF token \in SpacedTokens /\ out # <<>> /\ char_is_alphanumeric(out[Len(out)])
    THEN <<" ">> \o token ELSE token

\* and a space after it when the next raw byte is alphanumeric
KeywordBefore(content, i, token) ==
    IF token \in SpacedTokens /\ i < Len(content) /\ byte_is_alphanumeric(content[i + 1])
    THEN <<" ">> ELSE <<>>

\* the text of a line as the spacing rule states it: out is the text so far,
\* i the index of the byte to decode
RECURSIVE SpacedAsStated(_, _, _, _, _)
SpacedAsStated(content, i, out, in_quotes, in_rem) ==
    IF i > Len(content) THEN out
    ELSE IF content[i] = 34
    THEN SpacedAsStated(content, i + 1, Append(out, "\""), ~in_quotes, in_rem)
    ELSE IF in_quotes \/ in_rem \/ content[i] < 128
    THEN SpacedAsStated(content, i + 1, Append(out, petscii_to_ascii(content[i])),
                        in_quotes, in_rem)
    ELSE SpacedAsStated(content, i + 1,
                        out \o KeywordAfter(out, TOKENS[content[i] - 127])
                            \o KeywordBefore(content, i, TOKENS[content[i] - 127]),
                        in_quotes, TOKENS[content[i] - 127] = <<"R", "E", "M">>)

\* C20: outside strings and remarks a keyword token of the spaced set gets
\* one space before it exactly when the character emitted right before it is
\* alphanumeric, and one space after it exactly when the next raw byte is
\* alphanumeric; no other token gets a space.
C20_SpacingHeuristic ==
    (h_op = "detokenize_program" /\ h_source \in OneRecordPrograms \cup BetweenPrograms
                                 /\ h_output.ok) =>
        h_output.text =
            SpacedAsStated(RecordsOf(h_source, 1)[1].content, 1, <<"1", "0", " ">>, FALSE, FALSE)
                \o <<"\n">>

\* ---- C21: tokens, strings and remarks
\* the number of double quotes before byte i of the content of a line
QuotesBefore(content, i) == Cardinality({j \in 1..(i - 1) : content[j] = 34})

\* byte i lies inside a string: an odd number of quotes precedes it
InString(content, i) == QuotesBefore(content, i) % 2 = 1

\* byte i lies after a REM token (143) of the line that is not in a string
InRemark(content, i) ==
    \E j \in 1..(i - 1) : content[j] = 143 /\ ~InString(content, j)

Literal(content, i) == InString(content, i) \/ InRemark(content, i)

\* a byte with no entry in the token table, outside strings and remarks
UnknownOutside(content) ==
    \E i \in 1..Len(content) : content[i] >= 128 + Len(TOKENS) /\ ~Literal(content, i)

\* what byte i stands for: the table entry at index byte - 128 outside
\* strings and remarks, one character otherwise
Decoded(content, i) ==
    IF content[i] >= 128 /\ ~Literal(content, i) THEN TOKENS[content[i] - 127]
    ELSE <<petscii_to_ascii(content[i])>>

RECURSIVE DecodedFrom(_, _)
DecodedFrom(content, i) ==
    IF i > Len(content) THEN <<>> ELSE Decoded(content, i) \o DecodedFrom(content, i + 1)

NotSpace(c) == c # " "

\* a text without the spaces, which the spacing rule adds
Unspaced(text) == SelectSeq(text, NotSpace)

DecodedLines(records, textlines) ==
    /\ Len(textlines) = Len(records)
    /\ \A k \in 1..Len(records) :
          Unspaced(textlines[k])
              = FormatI64(records[k].number) \o Unspaced(DecodedFrom(records[k].content, 1))

\* C21: outside strings and remarks a byte b >= 128 is decoded as
\* TOKENS[b - 128], and one whose index is outside the table makes
\* detokenize_program return an Err and no text; inside a string or after a
\* REM token of the line no byte >= 128 is expanded (nor is it an error).
C21_TokensOutsideLiterals ==
    (h_op = "detokenize_program" /\ Framed(h_source, 1)) =>
        /\ h_output.ok <=> \A k \in 1..Len(RecordsOf(h_source, 1)) :
                               ~UnknownOutside(RecordsOf(h_source, 1)[k].content)
        /\ ~h_output.ok => h_output.text = <<>>
        /\ h_output.ok => DecodedLines(RecordsOf(h_source, 1), TextLines(h_output.text))

\* line 10 with a quote and, in the string, the PRINT token and a byte past
\* the table: 10 "??
C21_Witness ==
    /\ h_op = "detokenize_program"
    /\ h_source = Record(2064, 10, <<34, 153, 204>>) \o EndMarker
    /\ h_output.ok
    /\ h_output.text = <<"1", "0", " ", "\"", "?", "?", "\n">>

\* ---- C22: the size of the token table
\* C22 as stated: the table has 128 entries, so line 10 AbA is decoded for
\* every byte b of 128..255.
C22_TableCoversEveryByte ==
    \A b \in 128..255 :
        (h_op = "detokenize_program" /\ h_source = Between(b)) =>
            /\ b - 127 \in 1..Len(TOKENS)
            /\ h_output.ok

\* C22: the table has 76 entries, one for each byte of 128..203 (END to
\* GO); outside strings and remarks such a byte is decoded as its entry,
\* and a byte of 204..255 makes detokenize_program return an Err.
C22_TableCoversKeywordBytes ==
    /\ Len(TOKENS) = 76
    /\ \A b \in 128..255 :
          (h_op = "detokenize_program" /\ h_source = Between(b)) =>
              /\ h_output.ok <=> b <= 203
              /\ h_output.ok =>
                    Unspaced(h_output.text)
                        = <<"1", "0", "A">> \o Unspaced(TOKENS[b - 127]) \o <<"A", "\n">>

\* line 10 A, byte 203, A is decoded as 10 AGOA
C22_Witness ==
    /\ h_op = "detokenize_program"
    /\ h_source = Between(203)
    /\ h_output.ok
    /\ h_output.text = <<"1", "0", " ", "A", "G", "O", "A", "\n">>

\* ---------------------------------------------------------- FOR and NEXT
vJ == <<"J">>
vE == <<"E">>
vS == <<"S">>

\* a step as the parser builds it: a number, or the negation of one
StepExpr(c) == IF c < 0 THEN EUnaryOp("Neg", ENumber(-c)) ELSE ENumber(c)

\* 10 FOR I=a TO b [STEP c] : NEXT [name] / 20 A=1
ForNextProgram(a, b, has_step, c, name) ==
    << Ln(10, <<SFor(vI, ENumber(a), ENumber(b), has_step, StepExpr(c)), SNext(name)>>),
       Ln(20, <<Set(vA, 1)>>) >>

\* 10 FOR I=0 TO 1 : FOR J=0 TO 1 STEP c / 20 NEXT n1 : NEXT n2
NestedForProgram(c, n1, n2) ==
    << Ln(10, <<SFor(vI, ENumber(0), ENumber(1), FALSE, ENumber(0)),
                SFor(vJ, ENumber(0), ENumber(1), TRUE, StepExpr(c))>>),
       Ln(20, <<SNext(n1), SNext(n2)>>) >>

\* 10 E=e : S=c / 20 FOR I=0 TO E STEP S : E=0 : S=2 / 30 NEXT
ReboundForProgram(e, c) ==
    << Ln(10, <<Set(vE, e), SLet(vS, StepExpr(c))>>),
       Ln(20, <<SFor(vI, ENumber(0), EVariable(vE), TRUE, EVariable(vS)), Set(vE, 0),
                Set(vS, 2)>>),
       Ln(30, <<SNext(NoName)>>) >>

\* 10 IF 1 THEN FOR I=0 TO 1 : A=A+1 : NEXT I / 20 B=1
BranchForProgram ==
    << Ln(10, <<SIf(ENumber(1), <<SFor(vI, ENumber(0), ENumber(1), FALSE, ENumber(0)),
                                  Inc(vA), SNext(vI)>>)>>),
       Ln(20, <<Set(vB, 1)>>) >>

NextNames == {NoName, vI, vJ}

ForPrograms ==
    { ForNextProgram(a, b, TRUE, c, name) :
        a \in 0..MaxFor, b \in 0..MaxFor, c \in (-MaxFor)..MaxFor, name \in NextNames }
    \cup { ForNextProgram(a, b, FALSE, 0, NoName) : a \in 0..MaxFor, b \in 0..MaxFor }
    \cup { NestedForProgram(c, n1, n2) : c \in (-1)..1, n1 \in NextNames, n2 \in NextNames }
    \cup { ReboundForProgram(e, c) : e \in 0..MaxFor, c \in (-1)..1 }
    \cup { BranchForProgram }

LoadForProgram == \E prog \in ForPrograms : load_program(prog, SingleLoad)

NextFor ==
    \/ LoadForProgram
    \/ Step

\* one program with FOR and NEXT loaded into a new interpreter and stepped
SpecFor == Init /\ [][NextFor]_vars

\* the executions of NEXT in the last step() that found a frame
NextEntries == {i \in 1..Len(h_log) : h_log[i].k = "Next" /\ h_log[i].pre.for_stack # <<>>}

\* the innermost frame when the statement of the entry began
Innermost(e) == e.pre.for_stack[Len(e.pre.for_stack)]

\* the loop variable of that frame plus its step
Advanced(e) == e.pre.variables[Innermost(e).variable].n + Innermost(e).step

\* the frame is kept and the position is its resume position
Resumed(e) ==
    /\ e.post.for_stack = e.pre.for_stack
    /\ e.post.current_line = Innermost(e).line_num
    /\ e.post.statement_idx = Innermost(e).statement_idx

\* the frame is popped and the position is the one after the NEXT
FellThrough(e) ==
    /\ e.post.for_stack = SubSeq(e.pre.for_stack, 1, Len(e.pre.for_stack) - 1)
    /\ e.post.current_line = e.pre.current_line
    /\ e.post.statement_idx = e.pre.statement_idx

\* no variable but the one of the innermost frame has changed
OthersKept(e) ==
    /\ DOMAIN e.post.variables = DOMAIN e.pre.variables
    /\ \A v \in DOMAIN e.pre.variables :
          v # Innermost(e).variable => e.post.variables[v] = e.pre.variables[v]

\* C23: NEXT acts on the innermost frame whatever name follows it: it keeps
\* or pops that frame, resumes at that frame's position, leaves every other
\* variable alone (the named one included), and with a step other than 0
\* goes on exactly when that frame's variable plus that frame's step has not
\* passed that frame's end value, the variable then holding the sum.
C23_NextUsesInnermost ==
    h_op = "step" =>
        \A i \in NextEntries :
            /\ h_log[i].err = NoErr
            /\ Resumed(h_log[i]) \/ FellThrough(h_log[i])
            /\ OthersKept(h_log[i])
            /\ Resumed(h_log[i]) =>
                  h_log[i].post.variables[Innermost(h_log[i]).variable]
                      = Num(Advanced(h_log[i]))
            /\ Innermost(h_log[i]).step > 0 =>
                  (Resumed(h_log[i]) <=> Advanced(h_log[i]) <= Innermost(h_log[i]).end_value)
            /\ Innermost(h_log[i]).step < 0 =>
                  (Resumed(h_log[i]) <=> Advanced(h_log[i]) >= Innermost(h_log[i]).end_value)

\* 10 FOR I=0 TO 1 : FOR J=0 TO 1 STEP 1 / 20 NEXT I : NEXT J, after the
\* NEXT I: J is 1, I is 0, and the position is the one after FOR J
C23_Witness ==
    /\ h_op = "step"
    /\ NextEntries = {1}
    /\ StmtAt(h_log[1].path).variable = vI
    /\ Innermost(h_log[1]).variable = vJ
    /\ variables[vJ] = Num(1)
    /\ variables[vI] = Num(0)
    /\ current_line = 10
    /\ statement_idx = 2
    /\ Len(for_stack) = 2

\* the decision of NEXT as stated: go on with a positive step while the
\* advanced variable has not passed the end value, with a negative step
\* while it has not fallen below it, and never with a step of 0
ContinuesAsStated(e) ==
    \/ Innermost(e).step > 0 /\ Advanced(e) <= Innermost(e).end_value
    \/ Innermost(e).step < 0 /\ Advanced(e) >= Innermost(e).end_value

\* C24: NEXT keeps the frame and jumps to its resume position exactly when
\* (step > 0 and variable + step <= end) or (step < 0 and variable + step >=
\* end); in every other case, a step of 0 included, it pops the frame and
\* falls through to the statement after the NEXT.
C24_NextContinuesExactlyWhen ==
    h_op = "step" =>
        \A i \in NextEntries :
            IF ContinuesAsStated(h_log[i]) THEN Resumed(h_log[i]) ELSE FellThrough(h_log[i])

\* C25: every execution of NEXT adds the step of the frame to the loop
\* variable, the execution that ends the loop included; once 10 FOR I=1 TO 3 :
\* NEXT has finished and line 20 has run, I is 4.
C25_NextAlwaysAdvances ==
    /\ h_op = "step" =>
          \A i \in NextEntries :
              h_log[i].post.variables[Innermost(h_log[i]).variable] = Num(Advanced(h_log[i]))
    /\ (lines = parse_program(ForNextProgram(1, 3, FALSE, 0, NoName)) /\ Has(variables, vA)) =>
          variables[vI] = Num(4)

\* the FOR is the last statement of every inline branch that holds it
LastInBranches(path) ==
    \A d \in 3..Len(path) : path[d] + 1 = Len(StmtAt(SubSeq(path, 1, d - 1)).then_branch)

\* the position (line, index) stands for the statement that immediately
\* follows the statement at path
IsFollowing(path, line_num, idx) ==
    /\ line_num = path[1]
    /\ idx = path[2] + 1
    /\ LastInBranches(path)

\* the frame a FOR statement has to push, given the variables before it
PushedAsStated(e, stmt, frame) ==
    /\ frame.variable = stmt.variable
    /\ frame.end_value = eval_expr(e.pre, stmt.end).v.n
    /\ frame.step = IF stmt.has_step THEN eval_expr(e.pre, stmt.step).v.n ELSE 1
    /\ IsFollowing(e.path, frame.line_num, frame.statement_idx)
    /\ e.post.for_stack = Append(e.pre.for_stack, frame)
    /\ e.post.variables
           = Put(e.pre.variables, stmt.variable, Num(eval_expr(e.pre, stmt.start).v.n))

\* C26: FOR evaluates start, end and step (default 1) once, when it
\* executes, assigns start to the variable and pushes a frame with the end
\* value, the step and, as resume position, the statement immediately
\* following the FOR; no later assignment changes a frame.
C26_ForEvaluatesOnce ==
    h_op = "step" =>
        \A i \in 1..Len(h_log) :
            /\ (h_log[i].k = "For" /\ h_log[i].err = NoErr) =>
                  /\ h_log[i].post.for_stack # <<>>
                  /\ PushedAsStated(h_log[i], StmtAt(h_log[i].path),
                                    h_log[i].post.for_stack[Len(h_log[i].post.for_stack)])
            /\ h_log[i].k = "Let" => h_log[i].post.for_stack = h_log[i].pre.for_stack

\* ---------------------------------------------------------- DATA and READ
vCs == <<"C", "$">>

\* DATA 10,20 and DATA X
TwoNumbers == SData(<< <<"1", "0">>, <<"2", "0">> >>)
OneWord == SData(<< <<"X">> >>)

\* the DATA statements placed on line l
DataOn(l, l1, l2) ==
    (IF l1 = l THEN <<TwoNumbers>> ELSE <<>>) \o (IF l2 = l THEN <<OneWord>> ELSE <<>>)

HasStatements(ln) == ln.stmts # <<>>

\* 20 READ A,B$ / 30 READ C$ / 40 READ B, with DATA 10,20 on line l1 and
\* DATA X on line l2, each of them before, between or after the READs
DataReadProgram(l1, l2) ==
    SelectSeq(<< Ln(5, DataOn(5, l1, l2)),
                 Ln(20, <<SRead(<<vA, vBs>>)>>),
                 Ln(25, DataOn(25, l1, l2)),
                 Ln(30, <<SRead(<<vCs>>)>>),
                 Ln(40, <<SRead(<<vB>>)>>),
                 Ln(45, DataOn(45, l1, l2)) >>, HasStatements)

\* 10 IF c THEN DATA 7 / 20 READ A / 30 DATA 8 / 40 READ B
DataInBranchProgram(c) ==
    << Ln(10, <<SIf(ENumber(c), <<SData(<< <<"7">> >>)>>)>>),
       Ln(20, <<SRead(<<vA>>)>>),
       Ln(30, <<SData(<< <<"8">> >>)>>),
       Ln(40, <<SRead(<<vB>>)>>) >>

DataLines == {5, 25, 45}

DataPrograms ==
    { DataReadProgram(l1, l2) : l1 \in DataLines, l2 \in DataLines }
    \cup { DataInBranchProgram(c) : c \in 0..1 }

LoadDataProgram == \E prog \in DataPrograms : load_program(prog, SingleLoad)

NextData ==
    \/ LoadDataProgram
    \/ Step

\* one program with DATA and READ loaded into a new interpreter and stepped
SpecData == Init /\ [][NextData]_vars

\* the fields of every DATA statement of a statement list, those inside
\* inline IF branches included, in statement order
RECURSIVE FieldsOf(_, _)
FieldsOf(stmts, i) ==
    IF i > Len(stmts) THEN <<>>
    ELSE (CASE stmts[i].k = "Data" -> stmts[i].values
            [] stmts[i].k = "If" -> FieldsOf(stmts[i].then_branch, 1)
            [] OTHER -> <<>>) \o FieldsOf(stmts, i + 1)

RECURSIVE PoolFrom(_, _)
PoolFrom(keys, i) ==
    IF i > Len(keys) THEN <<>> ELSE FieldsOf(lines[keys[i]], 1) \o PoolFrom(keys, i + 1)

\* the pool as stated: every DATA statement of the program, in ascending
\* line and statement order
Pool == PoolFrom(Keys(lines), 1)

\* what READ stores for a field: the text for a name ending in $, else the
\* number it parses to
ReadValue(var, field) == IF ends_with_dollar(var) THEN Str(field) ELSE Num(ParseNumber(field))

\* one READ statement, begun with the cursor at e.pre.data_pointer
ReadsFromPool(e, vars_) ==
    IF e.pre.data_pointer + Len(vars_) <= Len(Pool)
    THEN /\ e.err = NoErr
         /\ e.post.data_pointer = e.pre.data_pointer + Len(vars_)
         /\ \A j \in 1..Len(vars_) :
               e.post.variables[vars_[j]] = ReadValue(vars_[j], Pool[e.pre.data_pointer + j])
    ELSE e.err = "OUT OF DATA"

\* C27: the k-th value READ consumes, counted over all READ statements and
\* their variables, is the k-th field of the pool of every DATA statement of
\* the program in ascending line and statement order, wherever the DATA
\* statements are and whether or not they execute; a READ past the end of
\* the pool fails with OUT OF DATA.
C27_ReadFollowsPool ==
    h_op = "step" =>
        \A i \in 1..Len(h_log) :
            h_log[i].k = "Read" => ReadsFromPool(h_log[i], StmtAt(h_log[i].path).vars)

\* ------------------------------------------------ DATA fields from text
vAs == <<"A", "$">>

\* fields of letters, digits and blanks
DataFields ==
    { <<"T", "O", "R", "I", "N", "O">>, <<"R", "O", "M", "A">>, <<"B", "A", "R", "I", " ", "2">>,
      <<"F", "O", "R", "L", "I">>, <<"1", "X", "2">>, <<"A", "N", "D", "R", "I", "A">> }

\* 10 DATA f,g / 20 READ A$,B$
DataText(f, g) ==
    <<"1", "0", " ", "D", "A", "T", "A", " ">> \o f \o <<",">> \o g
        \o <<"\n", "2", "0", " ", "R", "E", "A", "D", " ", "A", "$", ",", "B", "$">>

InitDataText ==
    /\ NewInterpreter
    /\ h_source \in { DataText(f, g) : f \in DataFields, g \in DataFields }
    /\ h_output = <<>>

\* run_program on a program with one DATA and one READ line
SpecDataText == InitDataText /\ [][NextRun]_vars

\* C28: the fields of 10 DATA f,g are stored as written, and READ A$,B$
\* returns them unchanged, for fields of letters, digits and blanks.
C28_ReadReturnsField ==
    \A f \in DataFields, g \in DataFields :
        h_source = DataText(f, g) =>
            /\ h_op = "load" => data_values = <<f, g>>
            /\ h_op = "step" =>
                  \A i \in 1..Len(h_log) :
                      h_log[i].k = "Read" =>
                          /\ h_log[i].err = NoErr
                          /\ h_log[i].post.variables[vAs] = Str(f)
                          /\ h_log[i].post.variables[vBs] = Str(g)

\* ---------------------------------------------------------- DIM and LET
\* the assignment of line 50: A(i)=B+1, A(i,0)=1 with one index too many,
\* C(i)=B to an array without DIM, B=C(0) and A(0)=A(i) with a failing
\* right-hand side, and B$=i, a number for a name ending in $
LetKinds(i) ==
    << SLetIdx(vA, <<ENumber(i)>>, EBinaryOp(EVariable(vB), "Add", ENumber(1))),
       SLetIdx(vA, <<ENumber(i), ENumber(0)>>, ENumber(1)),
       SLetIdx(vC, <<ENumber(i)>>, EVariable(vB)),
       SLet(vB, EArrayAccess(vC, <<ENumber(0)>>)),
       SLetIdx(vA, <<ENumber(0)>>, EArrayAccess(vA, <<ENumber(i)>>)),
       SLet(vBs, ENumber(i)) >>

\* 10 DIM A(n,m),B$(n) / 20 A(n,m)=7 : B$(0)="X" : B=5 / 30 DIM A(m) : DIM B$(m)
\* 40 A(0)=A(0)+B / 50 the assignment k / 60 B=1
DimLetProgram(n, m, i, k) ==
    << Ln(10, <<SDim(<<DimDecl(vA, <<ENumber(n), ENumber(m)>>), DimDecl(vBs, <<ENumber(n)>>)>>)>>),
       Ln(20, <<SLetIdx(vA, <<ENumber(n), ENumber(m)>>, ENumber(7)),
                SLetIdx(vBs, <<ENumber(0)>>, EString(<<"X">>)), Set(vB, 5)>>),
       Ln(30, <<SDim(<<DimDecl(vA, <<ENumber(m)>>)>>), SDim(<<DimDecl(vBs, <<ENumber(m)>>)>>)>>),
       Ln(40, <<SLetIdx(vA, <<ENumber(0)>>,
                        EBinaryOp(EArrayAccess(vA, <<ENumber(0)>>), "Add", EVariable(vB)))>>),
       Ln(50, <<LetKinds(i)[k]>>),
       Ln(60, <<Set(vB, 1)>>) >>

\* 10 DIM A(n,m),C(m) / 20 C(q)=4 / 30 A(p,q)=5 / 40 A(n-p,m-q)=6 / 50 C(0)=A(p,q)
MatrixProgram(n, m, p, q) ==
    << Ln(10, <<SDim(<<DimDecl(vA, <<ENumber(n), ENumber(m)>>), DimDecl(vC, <<ENumber(m)>>)>>)>>),
       Ln(20, <<SLetIdx(vC, <<ENumber(q)>>, ENumber(4))>>),
       Ln(30, <<SLetIdx(vA, <<ENumber(p), ENumber(q)>>, ENumber(5))>>),
       Ln(40, <<SLetIdx(vA, <<ENumber(n - p), ENumber(m - q)>>, ENumber(6))>>),
       Ln(50, <<SLetIdx(vC, <<ENumber(0)>>, EArrayAccess(vA, <<ENumber(p), ENumber(q)>>))>>) >>

\* main.rs loads the one program before the loop
LoadDimLetProgram ==
    /\ h_loads < SingleLoad
    /\ \/ \E n \in 0..MaxDim, m \in 0..MaxDim, i \in (-1)..(MaxDim + 1), k \in 1..Len(LetKinds(0)) :
             load_program(DimLetProgram(n, m, i, k), SingleLoad)
       \/ \E n \in 0..MaxDim, m \in 0..MaxDim : \E p \in 0..n, q \in 0..m :
             load_program(MatrixProgram(n, m, p, q), SingleLoad)

NextDim ==
    \/ LoadDimLetProgram
    \/ Step

\* one program with DIM and LET loaded into a new interpreter and stepped
SpecDim == Init /\ [][NextDim]_vars

\* the lengths and the number of elements DIM name(b1,...,bk) is stated to
\* allocate, for bounds written as numbers
StatedLengths(decl) == [j \in 1..Len(decl.dimensions) |-> decl.dimensions[j].n + 1]

RECURSIVE StatedElements(_, _)
StatedElements(decl, j) ==
    IF j > Len(decl.dimensions) THEN 1
    ELSE (decl.dimensions[j].n + 1) * StatedElements(decl, j + 1)

DefaultOf(name) == IF name[Len(name)] = "$" THEN Str(<<>>) ELSE Num(0)

DimAsStated(e, decls) ==
    /\ e.err = NoErr
    /\ \A d \in 1..Len(decls) :
          /\ Has(e.post.arrays, decls[d].name)
          /\ Len(e.post.arrays[decls[d].name]) = StatedElements(decls[d], 1)
          /\ \A j \in 1..Len(e.post.arrays[decls[d].name]) :
                e.post.arrays[decls[d].name][j] = DefaultOf(decls[d].name)
          /\ e.post.array_dimensions[decls[d].name] = StatedLengths(decls[d])

\* C29: DIM name(b1,...,bk) with non-negative bounds succeeds and leaves
\* the name with (b1+1)*...*(bk+1) elements, all 0 (all empty strings for a
\* name ending in $), and the dimension list b1+1,...,bk+1, whether or not
\* the name was dimensioned and assigned before.
C29_DimAllocates ==
    h_op = "step" =>
        \A i \in 1..Len(h_log) :
            h_log[i].k = "Dim" => DimAsStated(h_log[i], StmtAt(h_log[i].path).decls)

\* DIM A(2) executed when A was the 2 by 3 array of DIM A(1,2) with A(1,2)=7
C29_Witness ==
    /\ h_op = "step"
    /\ \E i \in 1..Len(h_log) :
          /\ h_log[i].k = "Dim"
          /\ Has(h_log[i].pre.arrays, vA)
          /\ h_log[i].pre.array_dimensions[vA] = <<2, 3>>
          /\ h_log[i].pre.arrays[vA] = <<Num(0), Num(0), Num(0), Num(0), Num(0), Num(7)>>
          /\ h_log[i].post.array_dimensions[vA] = <<3>>
          /\ h_log[i].post.arrays[vA] = <<Num(0), Num(0), Num(0)>>

\* index j of an indexed LET, written as a number, is outside 0..dims[j]-1
IndexOutside(stmt, dims) ==
    \E j \in 1..Len(stmt.index) : stmt.index[j].n < 0 \/ stmt.index[j].n >= dims[j]

\* the indexed assignment cannot be made in the state before it
CannotStore(e, stmt) ==
    /\ stmt.has_index
    /\ \/ ~Has(e.pre.array_dimensions, stmt.variable)
       \/ Len(stmt.index) # Len(e.pre.array_dimensions[stmt.variable])
       \/ IndexOutside(stmt, e.pre.array_dimensions[stmt.variable])

NothingAssigned(e) ==
    /\ e.post.variables = e.pre.variables
    /\ e.post.arrays = e.pre.arrays
    /\ e.post.array_dimensions = e.pre.array_dimensions

\* the one scalar or element the statement names holds value, all others
\* are as before
AssignedOnly(e, stmt, value) ==
    /\ e.post.array_dimensions = e.pre.array_dimensions
    /\ IF stmt.has_index
       THEN /\ e.post.variables = e.pre.variables
            /\ DOMAIN e.post.arrays = DOMAIN e.pre.arrays
            /\ \E fi \in 1..Len(e.pre.arrays[stmt.variable]) :
                  e.post.arrays = [e.pre.arrays EXCEPT ![stmt.variable][fi] = value]
       ELSE /\ e.post.arrays = e.pre.arrays
            /\ e.post.variables = Put(e.pre.variables, stmt.variable, value)

LetAsStated(e, stmt) ==
    /\ (CannotStore(e, stmt) \/ ~eval_expr(e.pre, stmt.value).ok) => e.err # NoErr
    /\ e.err # NoErr => NothingAssigned(e)
    /\ e.err = NoErr => AssignedOnly(e, stmt, eval_expr(e.pre, stmt.value).v)

\* C30: a LET whose right-hand side fails, or whose indexed target is not
\* dimensioned, has an index out of range or the wrong number of indices,
\* fails and leaves every scalar and every array element as before; a LET
\* that succeeds stores the value the right-hand side has in the state
\* before the statement, and changes nothing else.
C30_LetAssignsOrNothing ==
    h_op = "step" =>
        \A i \in 1..Len(h_log) :
            h_log[i].k = "Let" => LetAsStated(h_log[i], StmtAt(h_log[i].path))

\* A(3)=B+1 fails on the array of DIM A(2) that holds A(0)=5
C30_Witness ==
    /\ h_op = "step"
    /\ \E i \in 1..Len(h_log) :
          /\ h_log[i].k = "Let"
          /\ StmtAt(h_log[i].path) = LetKinds(3)[1]
          /\ h_log[i].err = "Array index out of bounds"
          /\ h_log[i].pre.arrays[vA] = <<Num(5), Num(0), Num(0)>>
          /\ h_log[i].post.arrays = h_log[i].pre.arrays
          /\ h_log[i].post.variables = h_log[i].pre.variables

\* ------------------------------------------------------ builtin functions
\* r?.as_number()? and r?.as_string()? of an evaluated argument r
NumberArg(r) ==
    IF ~r.ok THEN r ELSE IF r.v.t = "Number" THEN r ELSE Fail("Type mismatch: expected number")

StringArg(r) ==
    IF ~r.ok THEN r ELSE IF r.v.t = "String" THEN r ELSE Fail("Type mismatch: expected string")

\* the code of a character of 32..95
CodeOf(c) == CHOOSE b \in 32..95 : AsChar(b) = c

\* s.chars().take(n) and s.chars().skip(n)
Take(cs, n) == SubSeq(cs, 1, IF n < Len(cs) THEN n ELSE Len(cs))
Skip(cs, n) == SubSeq(cs, (IF n < Len(cs) THEN n ELSE Len(cs)) + 1, Len(cs))

\* (start - 1).max(0) as usize
MidStart(n) == IF n - 1 > 0 THEN n - 1 ELSE 0

\* the functions of one argument, once it is evaluated to r
OneArgument(name, r) ==
    CASE name = <<"I", "N", "T">> -> NumberArg(r)
      [] name = <<"C", "H", "R", "$">> ->
            IF NumberArg(r).ok THEN Ok(Str(<<AsChar(r.v.n % 256)>>)) ELSE NumberArg(r)
      [] name = <<"A", "S", "C">> ->
            IF StringArg(r).ok THEN Ok(Num(IF r.v.s = <<>> THEN 0 ELSE CodeOf(r.v.s[1])))
            ELSE StringArg(r)
      [] name = <<"V", "A", "L">> ->
            IF StringArg(r).ok THEN Ok(Num(ParseNumber(Trim(r.v.s)))) ELSE StringArg(r)
      [] name = <<"S", "T", "R", "$">> ->
            IF NumberArg(r).ok THEN Ok(Str(<<" ">> \o FormatI64(r.v.n))) ELSE NumberArg(r)
      [] name = <<"L", "E", "N">> ->
            IF StringArg(r).ok THEN Ok(Num(Len(r.v.s))) ELSE StringArg(r)

\* LEFT$ and RIGHT$ once the arguments are evaluated, the string first
TwoArguments(name, r, n) ==
    IF ~StringArg(r).ok THEN StringArg(r)
    ELSE IF ~NumberArg(n).ok THEN NumberArg(n)
    ELSE IF name = <<"L", "E", "F", "T", "$">> THEN Ok(Str(Take(r.v.s, AsUsize(n.v.n))))
    ELSE Ok(Str(Skip(r.v.s, IF AsUsize(n.v.n) > Len(r.v.s) THEN 0
                            ELSE Len(r.v.s) - AsUsize(n.v.n))))

\* MID$ of two arguments, and the take(length) of the third
MidFrom(r, n) ==
    IF ~StringArg(r).ok THEN StringArg(r)
    ELSE IF ~NumberArg(n).ok THEN NumberArg(n)
    ELSE Ok(Str(Skip(r.v.s, MidStart(n.v.n))))

MidTake(m, l) ==
    IF ~m.ok THEN m
    ELSE IF ~NumberArg(l).ok THEN NumberArg(l)
    ELSE Ok(Str(Take(m.v.s, AsUsize(l.v.n))))

\* rng.gen() is a number of [0, 1); the numbers of the model are integral
\* and 0 is the one such number in the interval
RndValue == Num(0)

\* the Err of a call with a wrong number of arguments
ArityError(name) ==
    Fail(CASE name = <<"I", "N", "T">> -> "INT requires 1 argument"
           [] name = <<"C", "H", "R", "$">> -> "CHR$ requires 1 argument"
           [] name = <<"A", "S", "C">> -> "ASC requires 1 argument"
           [] name = <<"V", "A", "L">> -> "VAL requires 1 argument"
           [] name = <<"S", "T", "R", "$">> -> "STR$ requires 1 argument"
           [] name = <<"L", "E", "N">> -> "LEN requires 1 argument"
           [] name = <<"M", "I", "D", "$">> -> "MID$ requires 2 or 3 arguments"
           [] name = <<"L", "E", "F", "T", "$">> -> "LEFT$ requires 2 arguments"
           [] name = <<"R", "I", "G", "H", "T", "$">> -> "RIGHT$ requires 2 arguments")

eval_function(s, name, args) ==
    CASE name = <<"R", "N", "D">> -> Ok(RndValue)
      [] name \in { <<"I", "N", "T">>, <<"C", "H", "R", "$">>, <<"A", "S", "C">>,
                    <<"V", "A", "L">>, <<"S", "T", "R", "$">>, <<"L", "E", "N">> } ->
            IF Len(args) # 1 THEN ArityError(name)
            ELSE OneArgument(name, eval_expr(s, args[1]))
      [] name = <<"M", "I", "D", "$">> ->
            IF Len(args) < 2 \/ Len(args) > 3
            THEN ArityError(name)
            ELSE IF Len(args) = 3
            THEN MidTake(MidFrom(eval_expr(s, args[1]), eval_expr(s, args[2])),
                         eval_expr(s, args[3]))
            ELSE MidFrom(eval_expr(s, args[1]), eval_expr(s, args[2]))
      [] name \in { <<"L", "E", "F", "T", "$">>, <<"R", "I", "G", "H", "T", "$">> } ->
            IF Len(args) # 2 THEN ArityError(name)
            ELSE TwoArguments(name, eval_expr(s, args[1]), eval_expr(s, args[2]))
      [] OTHER -> Fail("Unknown function")

\* ------------------------------------------------- evaluating expressions
\* the operands of AND, OR and NOT: numbers, strings, and an element of an
\* array that is not dimensioned, whose evaluation fails
OperandNumbers == { ENumber(a) : a \in (-MaxNumber)..MaxNumber }
Undimensioned == EArrayAccess(vA, <<ENumber(0)>>)
Operands == OperandNumbers \cup { EString(<<>>), EString(<<"X">>), Undimensioned }

LogicalExprs ==
    { EBinaryOp(l, op, r) : l \in Operands, op \in {"And", "Or"}, r \in Operands }
    \cup { EUnaryOp("Not", x) : x \in Operands }

\* calls are made with up to MaxArguments arguments
MaxArguments == 4

\* argument j of a call, of the type the function takes there
ArgumentAt(name, j) ==
    CASE name \in { <<"I", "N", "T">>, <<"R", "N", "D">>, <<"S", "T", "R", "$">> } ->
            ENumber(IF j = 1 THEN 5 ELSE 1)
      [] name = <<"C", "H", "R", "$">> -> ENumber(IF j = 1 THEN 65 ELSE 1)
      [] name \in { <<"A", "S", "C">>, <<"V", "A", "L">>, <<"L", "E", "N">> } ->
            EString(IF j = 1 THEN <<"4", "2">> ELSE <<"A">>)
      [] OTHER -> IF j = 1 THEN EString(<<"A", "B", "C">>) ELSE ENumber(IF j = 2 THEN 2 ELSE 1)

ArgumentsOf(name, k) == [j \in 1..k |-> ArgumentAt(name, j)]

Builtins ==
    { <<"I", "N", "T">>, <<"R", "N", "D">>, <<"C", "H", "R", "$">>, <<"A", "S", "C">>,
      <<"V", "A", "L">>, <<"S", "T", "R", "$">>, <<"M", "I", "D", "$">>, <<"L", "E", "N">>,
      <<"L", "E", "F", "T", "$">>, <<"R", "I", "G", "H", "T", "$">> }

CallExprs ==
    { EFunctionCall(name, ArgumentsOf(name, k)) :
        name \in Builtins, k \in 0..MaxArguments }

InitEval ==
    /\ NewInterpreter
    /\ h_source \in LogicalExprs \cup CallExprs
    /\ h_output = <<>>

Evaluate == Returns("eval_expr", eval_expr(Self, h_source))

\* one expression evaluated by a new interpreter
SpecEval == InitEval /\ [][Evaluate]_vars

\* bit k of an integer in two's complement
BitOf(a, k) == (a \div (2 ^ k)) % 2

\* the integer of -16..15 whose bits 0..4 are given by bit
FromBits(bit(_)) == bit(0) + 2 * bit(1) + 4 * bit(2) + 8 * bit(3) - 16 * bit(4)

StatedAnd(a, b) == LET both(k) == BitOf(a, k) * BitOf(b, k) IN FromBits(both)
StatedOr(a, b) == LET any(k) == IF BitOf(a, k) + BitOf(b, k) > 0 THEN 1 ELSE 0 IN FromBits(any)

IsLogical(x) == x.e = "BinaryOp" /\ x.op \in {"And", "Or"}

\* C31: AND and OR of two numbers are the bitwise AND and OR of their
\* integer values (1 AND 2 = 0, 1 OR 2 = 3; on -1 and 0 they are the
\* logical and/or); both operands are evaluated, so a failing or a string
\* operand on either side fails the expression whatever the other is; NOT
\* is -1 for 0 and the empty string and 0 for every other operand.
C31_BitwiseAndOr ==
    h_op = "eval_expr" =>
        /\ (IsLogical(h_source) /\ h_source.l.e = "Number" /\ h_source.r.e = "Number") =>
              h_output = Ok(Num(IF h_source.op = "And" THEN StatedAnd(h_source.l.n, h_source.r.n)
                                ELSE StatedOr(h_source.l.n, h_source.r.n)))
        /\ (IsLogical(h_source) /\ (h_source.l.e # "Number" \/ h_source.r.e # "Number")) =>
              ~h_output.ok
        /\ h_source = EBinaryOp(ENumber(1), "And", ENumber(2)) => h_output = Ok(Num(0))
        /\ h_source = EBinaryOp(ENumber(1), "Or", ENumber(2)) => h_output = Ok(Num(3))
        /\ (h_source.e = "UnaryOp" /\ h_source # EUnaryOp("Not", Undimensioned)) =>
              h_output = Ok(Num(IF h_source.x \in {ENumber(0), EString(<<>>)} THEN -1 ELSE 0))

\* -3 AND 5 is 5
C31_Witness ==
    /\ h_op = "eval_expr"
    /\ h_source = EBinaryOp(ENumber(-3), "And", ENumber(5))
    /\ h_output = Ok(Num(5))

\* the numbers of arguments a builtin is stated to take
StatedArity(name) ==
    CASE name = <<"M", "I", "D", "$">> -> {2, 3}
      [] name \in { <<"L", "E", "F", "T", "$">>, <<"R", "I", "G", "H", "T", "$">> } -> {2}
      [] OTHER -> {1}

\* C32: a call of a builtin function with arguments of the right types
\* succeeds exactly when their number is one the function takes; with any
\* other number of arguments it is an error.
C32_ArityChecked ==
    (h_op = "eval_expr" /\ h_source.e = "FunctionCall") =>
        (h_output.ok <=> Len(h_source.args) \in StatedArity(h_source.name))

\* ------------------------------------------------- operator precedence
\* the binary operators of the six levels, lowest first, and their texts
LevelOps == <<"Or", "And", "Eq", "Add", "Mul", "Pow">>

Level(op) == CHOOSE l \in 1..Len(LevelOps) : LevelOps[l] = op

OpText(op) ==
    CASE op = "Or" -> <<" ", "O", "R", " ">>
      [] op = "And" -> <<" ", "A", "N", "D", " ">>
      [] op = "Eq" -> <<"=">>
      [] op = "Add" -> <<"+">>
      [] op = "Mul" -> <<"*">>
      [] op = "Pow" -> <<"^">>
      [] op = "Neg" -> <<"-">>
      [] op = "Not" -> <<"N", "O", "T", " ">>

LetX == <<"1", "0", " ", "X", "=">>

\* 10 X=A o1 B o2 C and 10 X=u A o B
PairSource(o1, o2) == LetX \o <<"A">> \o OpText(o1) \o <<"B">> \o OpText(o2) \o <<"C">>
UnarySource(u, o) == LetX \o OpText(u) \o <<"A">> \o OpText(o) \o <<"B">>

\* 10 X=A o u B
OperandSource(u, o) == LetX \o <<"A">> \o OpText(o) \o OpText(u) \o <<"B">>

Ops == { LevelOps[l] : l \in 1..Len(LevelOps) }

\* two comparisons in a row are not an expression
Pairs == { pr \in Ops \X Ops : pr # <<"Eq", "Eq">> }
Unaries == {"Neg", "Not"} \X Ops

InitPrecedence ==
    /\ NewInterpreter
    /\ h_source \in { PairSource(pr[1], pr[2]) : pr \in Pairs }
                    \cup { UnarySource(pr[1], pr[2]) : pr \in Unaries }
                    \cup { OperandSource(pr[1], pr[2]) : pr \in Unaries }
    /\ h_output = <<>>

\* load_program on one assignment of an expression of three operands
SpecPrecedence == InitPrecedence /\ [][LoadSource]_vars

\* A o1 B o2 C as stated: the operator of the higher level binds first,
\* on a tie the left one, except for ^ where the right one does
StatedPair(o1, o2) ==
    IF Level(o1) > Level(o2) \/ (Level(o1) = Level(o2) /\ o1 # "Pow")
    THEN EBinaryOp(EBinaryOp(EVariable(vA), o1, EVariable(vB)), o2, EVariable(vC))
    ELSE EBinaryOp(EVariable(vA), o1, EBinaryOp(EVariable(vB), o2, EVariable(vC)))

\* u A o B as stated: u binds before every operator but ^
StatedUnary(u, o) ==
    IF o = "Pow" THEN EUnaryOp(u, EBinaryOp(EVariable(vA), o, EVariable(vB)))
    ELSE EBinaryOp(EUnaryOp(u, EVariable(vA)), o, EVariable(vB))

ParsesTo(x) == h_op = "load" /\ lines[10] = <<SLet(<<"X">>, x)>>

\* C33: expressions parse with the levels OR, AND, comparison, + -, * /,
\* unary, ^, primary from lowest to highest and ^ right-associative:
\* A^B^C is Pow(A,Pow(B,C)) and -A^B is Neg(Pow(A,B)).
C33_Precedence ==
    h_op # "new" =>
        /\ \A pr \in Pairs : h_source = PairSource(pr[1], pr[2]) => ParsesTo(StatedPair(pr[1], pr[2]))
        /\ \A pr \in Unaries :
              /\ h_source = UnarySource(pr[1], pr[2]) => ParsesTo(StatedUnary(pr[1], pr[2]))
              /\ h_source = OperandSource(pr[1], pr[2]) =>
                    ParsesTo(EBinaryOp(EVariable(vA), pr[2], EUnaryOp(pr[1], EVariable(vB))))

\* ------------------------------------------------------------ inline IF

\* entry j of the log is a statement of the same inline branch as entry i,
\* executed after it
LaterInBranch(i, j) ==
    /\ i < j
    /\ Len(h_log[i].path) > 2
    /\ Len(h_log[j].path) = Len(h_log[i].path)
    /\ Parent(h_log[j].path) = Parent(h_log[i].path)

Transfers == {"Goto", "Gosub", "Return", "End"}

\* C34: after a GOTO, GOSUB, RETURN or END that succeeds inside an inline
\* IF branch no later statement of that branch is executed.
C34_TransferEndsBranch ==
    h_op = "step" =>
        \A i \in 1..Len(h_log), j \in 1..Len(h_log) :
            (h_log[i].k \in Transfers /\ h_log[i].err = NoErr) => ~LaterInBranch(i, j)

\* the statements of the branch of the IF of entry i that were executed
BranchEntries(i) ==
    { j \in 1..Len(h_log) : Len(h_log[j].path) > Len(h_log[i].path)
                            /\ SubSeq(h_log[j].path, 1, Len(h_log[i].path)) = h_log[i].path }

IfAsStated(i, stmt, condition) ==
    /\ (condition.ok /\ ~is_truthy(condition.v)) =>
          /\ h_log[i].err = NoErr
          /\ h_log[i].post = h_log[i].pre
          /\ BranchEntries(i) = {}
    /\ (condition.ok /\ is_truthy(condition.v) /\ stmt.then_line # NoLine) =>
          /\ h_log[i].err = NoErr
          /\ h_log[i].post.current_line = stmt.then_line
          /\ h_log[i].post.statement_idx = 0

\* C35: an IF whose condition is 0 or the empty string executes no
\* statement of its branch and changes nothing, the position included,
\* which is already that of the statement after the IF; an IF with a true
\* condition and a line number sets the position to (that line, 0).
C35_IfFalseSkipsIfLineJumps ==
    h_op = "step" =>
        \A i \in 1..Len(h_log) :
            h_log[i].k = "If" =>
                IfAsStated(i, StmtAt(h_log[i].path),
                           eval_expr(h_log[i].pre, StmtAt(h_log[i].path).condition))

\* 10 IF 0 THEN A=1 : END is passed with the position at statement 1 of line 10
C35_WitnessFalse ==
    /\ h_op = "step"
    /\ Len(h_log) = 1
    /\ h_log[1].k = "If"
    /\ StmtAt(h_log[1].path) = SIf(ENumber(0), <<Set(vA, 1), SEnd>>)
    /\ current_line = 10
    /\ statement_idx = 1
    /\ ~ended

\* ---------------------------------------------------------------- INPUT
\* C36: the input buffer is empty whenever the interpreter is not waiting
\* for input, and while it waits it holds the characters delivered since
\* the INPUT began waiting, minus those removed by backspace, so that only
\* these reach the variable.
C36_BufferHoldsOnlyAwaitedChars ==
    /\ ~waiting_for_input => input_buffer = <<>>
    /\ waiting_for_input => input_buffer = h_fed

\* ------------------------------------------------------- types by name
HoldsTypeOfName(name, value) == value.t = (IF ends_with_dollar(name) THEN "String" ELSE "Number")

\* C37: every scalar and every array element holds a String when its name
\* ends in $ and a Number otherwise.
C37_TypeFollowsName ==
    /\ \A name \in DOMAIN variables : HoldsTypeOfName(name, variables[name])
    /\ \A name \in DOMAIN arrays :
          \A j \in 1..Len(arrays[name]) : HoldsTypeOfName(name, arrays[name][j])

\* ------------------------------------------------------- array elements
\* the index tuples in range for the dimension list dims
RECURSIVE TuplesOf(_)
TuplesOf(dims) ==
    IF dims = <<>> THEN {<<>>}
    ELSE { <<i>> \o t : i \in 0..(dims[1] - 1), t \in TuplesOf(Tail(dims)) }

ElementAt(name, t) == EArrayAccess(name, [j \in 1..Len(t) |-> ENumber(t[j])])

\* the tuple of an indexed LET whose indices are written as numbers
TupleOf(stmt) == [j \in 1..Len(stmt.index) |-> stmt.index[j].n]

\* the position of a tuple in row-major order, the last index fastest
RECURSIVE RowMajor(_, _)
RowMajor(t, dims) ==
    IF t = <<>> THEN 0
    ELSE RowMajor(SubSeq(t, 1, Len(t) - 1), SubSeq(dims, 1, Len(dims) - 1)) * dims[Len(dims)]
         + t[Len(t)]

\* after the assignment the element reads as value, every other element of
\* the array and every element of the other arrays reads as before
OneElementAssigned(e, stmt, value) ==
    /\ e.post.arrays[stmt.variable][RowMajor(TupleOf(stmt), e.pre.array_dimensions[stmt.variable]) + 1]
           = value
    /\ \A name \in DOMAIN e.pre.arrays :
          \A t \in TuplesOf(e.pre.array_dimensions[name]) :
              eval_expr(e.post, ElementAt(name, t))
                  = IF name = stmt.variable /\ t = TupleOf(stmt) THEN Ok(value)
                    ELSE eval_expr(e.pre, ElementAt(name, t))

\* C38: the element of an in-range index tuple is the cell at its
\* row-major position, and an assignment to it changes what is read at
\* this tuple only: every other tuple of the array and every element of
\* the other arrays reads as before.
C38_ElementsAreDistinct ==
    h_op = "step" =>
        \A i \in 1..Len(h_log) :
            (h_log[i].k = "Let" /\ StmtAt(h_log[i].path).has_index /\ h_log[i].err = NoErr) =>
                OneElementAssigned(h_log[i], StmtAt(h_log[i].path),
                                   eval_expr(h_log[i].pre, StmtAt(h_log[i].path).value).v)

\* A(1,0)=6 on the 2 by 3 array that holds A(0,2)=5, with C(2)=4
C38_Witness ==
    /\ h_op = "step"
    /\ \E i \in 1..Len(h_log) :
          /\ StmtAt(h_log[i].path) = SLetIdx(vA, <<ENumber(1), ENumber(0)>>, ENumber(6))
          /\ h_log[i].pre.arrays[vA] = <<Num(0), Num(0), Num(5), Num(0), Num(0), Num(0)>>
          /\ h_log[i].post.arrays[vA] = <<Num(0), Num(0), Num(5), Num(6), Num(0), Num(0)>>
          /\ h_log[i].post.arrays[vC] = <<Num(0), Num(0), Num(4)>>

\* ------------------------------------------------------- failing steps
\* C39: a step() that returns an error leaves the variables, the arrays
\* and their dimensions, the GOSUB and FOR stacks and the DATA cursor as
\* they were before the step.
C39_FailedStepChangesNothing ==
    (h_op = "step" /\ Len(h_log) > 0 /\ h_log[1].err # NoErr) =>
        /\ variables = h_log[1].pre.variables
        /\ arrays = h_log[1].pre.arrays
        /\ array_dimensions = h_log[1].pre.array_dimensions
        /\ gosub_stack = h_log[1].pre.gosub_stack
        /\ for_stack = h_log[1].pre.for_stack
        /\ data_pointer = h_log[1].pre.data_pointer

\* ============================================================ game layer
\* tui/src/game_state.rs: the money of the club.  The fields the loan and
\* the weekly costs read and write; owned is owned_players().len(), 8 for
\* the starting squad; loans, weeks, result and before are history fields:
\* the numbers of take_loan and of pay_weekly_costs calls so far, what the
\* last call returned, and the money, debt and interest before it.

\* the host asks for up to MaxLoans loans on one GameState
MaxLoans == 2

\* and plays up to MaxWeeks weeks: the starting money of a club of league 1
\* lasts 52 weeks
MaxWeeks == 54

Leagues == 1..4

\* the loans asked for
LoanAmounts == {1000, 50000, 100000, 250000}

MoneyOf(g) == [money |-> g.money, debt |-> g.debt, weekly_interest |-> g.weekly_interest]

\* GameState::new(team_name, starting_league) for a team name that is not
\* in the tables
NewGame(starting_league) ==
    [current_league |-> starting_league, money |-> 150000, debt |-> 0, weekly_interest |-> 0,
     owned |-> 8, loans |-> 0, weeks |-> 0, result |-> "new",
     before |-> [money |-> 150000, debt |-> 0, weekly_interest |-> 0]]

\* (x as f32 * 1.2) as i32 for 0 <= x < 2^20: the f32 product lies between
\* 1.2 x and 1.2 x + 0.1 and is truncated
TimesOnePointTwo(x) == (x * 12) \div 10

\* i32 division, which truncates towards zero
TruncDiv(a, b) == IF a >= 0 THEN a \div b ELSE -((-a) \div b)

max_debt(g) == 100000 * (5 - g.current_league)

Called(g, count, result, before_) ==
    [g EXCEPT ![count] = @ + 1, !.result = result, !.before = MoneyOf(before_)]

TakeLoan(g, amount) ==
    IF amount + g.debt > max_debt(g) THEN Called(g, "loans", "Err", g)
    ELSE Called([g EXCEPT !.debt = g.debt + TimesOnePointTwo(amount),
                          !.weekly_interest = TruncDiv(g.debt + TimesOnePointTwo(amount), 20),
                          !.money = g.money + amount], "loans", "Ok", g)

total_costs(g) ==
    g.owned * (70 + (5 - g.current_league) * 10) + 500 * (5 - g.current_league)
        + g.weekly_interest

\* if self.money < 0 { ... }, with money already reduced by the costs
CoverShortage(g) ==
    IF g.money < 0
    THEN [g EXCEPT !.money = 0,
                   !.debt = g.debt + TimesOnePointTwo(-g.money + 1000),
                   !.weekly_interest = TruncDiv(g.debt + TimesOnePointTwo(-g.money + 1000), 20)]
    ELSE g

\* self.debt -= self.weekly_interest; if self.debt <= 0 { ... }
PayDown(g) ==
    IF g.debt - g.weekly_interest <= 0 THEN [g EXCEPT !.debt = 0, !.weekly_interest = 0]
    ELSE [g EXCEPT !.debt = g.debt - g.weekly_interest]

PayWeeklyCosts(g) == Called(PayDown(CoverShortage([g EXCEPT !.money = @ - total_costs(g)])),
           "weeks", "Ok", g)

InterpreterUnchanged ==
    UNCHANGED <<lines, variables, arrays, array_dimensions, gosub_stack, for_stack, data_values,
                data_pointer, current_line, statement_idx, input_buffer, waiting_for_input,
                input_variable, ended, sink, h_result, h_log, h_expect, h_pending, h_ret_ok,
                h_input_path, h_committed, h_resumed, h_errored, h_exec_after_error, h_typed,
                h_fed, h_loads, h_source, h_output>>

new ==
    /\ game = NoGame
    /\ \E starting_league \in Leagues : game' = NewGame(starting_league)
    /\ h_op' = "GameState::new"
    /\ InterpreterUnchanged

take_loan ==
    /\ game # NoGame
    /\ game.loans < MaxLoans
    /\ \E amount \in LoanAmounts : game' = TakeLoan(game, amount)
    /\ h_op' = "take_loan"
    /\ InterpreterUnchanged

pay_weekly_costs ==
    /\ game # NoGame
    /\ game.weeks < MaxWeeks
    /\ game' = PayWeeklyCosts(game)
    /\ h_op' = "pay_weekly_costs"
    /\ InterpreterUnchanged

NextGame ==
    \/ new
    \/ take_loan
    \/ pay_weekly_costs

\* a GameState and the calls of the bank and of the end of a week
SpecGame == Init /\ [][NextGame]_vars

\* C40: the debt never exceeds the maximum debt of the league,
\* 100000 * (5 - current_league), and a take_loan that returns an Err
\* leaves money, debt and weekly interest as they were.
C40_DebtWithinLimit ==
    game # NoGame =>
        /\ game.debt <= 100000 * (5 - game.current_league)
        /\ (h_op = "take_loan" /\ game.result = "Err") => MoneyOf(game) = game.before

====
